---- MODULE Spec2Model ----
(***************************************************************************)
(* Control core of the XIAO ESP32S3 MP3 player (xiao_mp3_player.ino).      *)
(*                                                                         *)
(* The sketch is one cooperative loop.  The record m holds the sketch's    *)
(* globals (the g_ fields, named as in the source) together with what the  *)
(* sketch drives: the millisecond clock, the LED duty cycles, what the     *)
(* audio engine was last told, and the log io of the calls the current     *)
(* handler made to its collaborators.  Every C function is an operator     *)
(* from a record to a record; what a function reads from the outside (pin  *)
(* levels, the result of connecttoFS, the files on the card) is a          *)
(* parameter, chosen by the action that calls it.                          *)
(***************************************************************************)
EXTENDS Integers, Sequences, FiniteSets, TLC

VARIABLES
  m,      \* the sketch's globals, the clock, the LED and the audio engine
  pc,     \* position in loop(): "loop" (top), "enc", "sw", "led"
  files,  \* the track indices whose file exists on the card
  t0,     \* the value of millis() when setup() returned
  horizon,\* how long after setup() the run is followed, in milliseconds
  btn     \* the SW line: its level, and the record of the current press

vars == <<m, pc, files, t0, horizon, btn>>

----------------------------------------------------------------------------
(* Configuration: the #defines of the sketch.                              *)

NUM_TRACKS == 9
VOLUME_DEFAULT == 15
VOLUME_MIN == 0
VOLUME_MAX == 21
VOLUME_STEP == 1
DEBOUNCE_BUTTON_MS == 50
DEBOUNCE_ENCODER_MS == 5
LONG_PRESS_MS == 500
TRACK_COLOR_MS == 1500
VOLUME_FLASH_MS == 200
SLEEP_POLL_MS == 50
WAKE_DELAY_MS == 100
SETUP_DELAY_MS == 1000
BREATH_MIN == 10
BREATH_MAX == 255
RAINBOW_INTERVAL_MS == 50
ERR_MIN == 50
ERR_AMPL == 100
HUE_MOD == 360
LOW == 0
HIGH == 1
PIN_ENC_CLK == 4
PIN_ENC_DT == 5
PIN_ENC_SW == 6

TRACK_COLORS ==
  << <<255, 0, 0>>, <<255, 127, 0>>, <<255, 255, 0>>, <<0, 255, 0>>,
     <<0, 255, 255>>, <<0, 0, 255>>, <<127, 0, 255>>, <<255, 0, 127>>,
     <<255, 255, 255>> >>

STATE_IDLE == "IDLE"
STATE_PLAYING == "PLAYING"
STATE_PAUSED == "PAUSED"
STATE_ERROR == "ERROR"
PlayerState == {STATE_IDLE, STATE_PLAYING, STATE_PAUSED, STATE_ERROR}

(* The colours the sketch writes as literals.                              *)
LED_OFF == <<0, 0, 0>>
LED_INIT == <<128, 0, 128>>
LED_ERROR == <<255, 0, 0>>
LED_STANDBY == <<0, 0, 30>>
LED_FLASH == <<100, 100, 100>>

----------------------------------------------------------------------------
(* Bounds of the model.                                                    *)

\* unsigned long is 32 bits wide; the model's clock wraps at ClockMod.
ClockMod == 65536
\* Spec follows a run for MaxTime milliseconds after setup(), SpecVolume for
\* MaxVolTime, SpecCatalog for MaxCatalogTime, SpecButton for MaxButtonTime,
\* SpecEncoder for MaxEncoderTime, SpecLed for MaxLedTime,
\* SpecSleep for MaxSleepTime, SpecOverlay for MaxOverlayTime.
MaxTime == 800
MaxVolTime == 250
MaxCatalogTime == 150
MaxButtonTime == 210
MaxEncoderTime == 162
MaxLedTime == 1800
MaxSleepTime == 1900
MaxOverlayTime == 1800
MaxWakeTime == 1300
MaxWrapTime == 1700

----------------------------------------------------------------------------
(* The clock.                                                              *)

\* millis()
millis(s) == s.now

\* now - start in arithmetic that does not wrap
Elapsed_signed(now, start) == now - start

\* now - start in unsigned arithmetic
Elapsed(now, start) == (now - start) % ClockMod

\* delay(ms)
delay(s, ms) == [s EXCEPT !.now = (@ + ms) % ClockMod]

----------------------------------------------------------------------------
(* The log io: the calls to the collaborators (pins, LED, card, audio       *)
(* engine) and the gestures and notifications dispatched, in order, one    *)
(* entry <<name, arguments>> each.                                         *)

Call(s, name, args) == [s EXCEPT !.io = Append(@, <<name, args>>)]

Named(log, name) == SelectSeq(log, LAMBDA e : e[1] = name)

Count(log, name) == Len(Named(log, name))

\* digitalRead(pin), which answers level
digitalRead(s, pin, level) == Call(s, "digitalRead", <<pin, level>>)

----------------------------------------------------------------------------
(* LED control.                                                            *)

\* ledcWrite on the three channels (RGB_ACTIVE_LOW is false)
setLED(s, rgb) == Call([s EXCEPT !.led = rgb], "setLED", rgb)

\* x >> 8
Shr8(x) == x \div 256

\* hsvToRgb: integer arithmetic on uint8 values
hsvToRgb(h, sat, v) ==
  IF sat = 0 THEN <<v, v, v>>
  ELSE LET region == (h \div 60) % 256
           rem    == (((h - region * 60) * 255) \div 60) % 256
           p      == Shr8(v * (255 - sat)) % 256
           q      == Shr8(v * (255 - Shr8(sat * rem))) % 256
           t      == Shr8(v * (255 - Shr8(sat * (255 - rem)))) % 256
       IN CASE region = 0 -> <<v, t, p>>
            [] region = 1 -> <<q, v, p>>
            [] region = 2 -> <<p, v, t>>
            [] region = 3 -> <<p, q, v>>
            [] region = 4 -> <<t, p, v>>
            [] OTHER      -> <<v, p, q>>

showTrackColor(s, idx) ==
  IF idx < 0 \/ idx >= NUM_TRACKS THEN s
  ELSE [setLED(s, TRACK_COLORS[idx + 1]) EXCEPT
          !.g_showingTrackColor = TRUE,
          !.g_trackColorStart = millis(s)]
\* showVolumeFlash that lets a running flash run out
showVolumeFlash_keep(s) ==
  [setLED(s, LED_FLASH) EXCEPT
     !.g_showingVolFlash = TRUE,
     !.g_volFlashStart = IF s.g_showingVolFlash THEN @ ELSE millis(s)]

showVolumeFlash(s) ==
  [setLED(s, LED_FLASH) EXCEPT
     !.g_showingVolFlash = TRUE,
     !.g_volFlashStart = millis(s)]

\* breathingRainbow: the brightness comes from sinf of a float phase, which is
\* not modelled; brightness is whatever value in BREATH_MIN..BREATH_MAX the
\* envelope gives at this step.
breathingRainbow(s, brightness) ==
  LET hue == (s.g_rainbowHue + 1) % HUE_MOD
  IN setLED([s EXCEPT !.g_rainbowHue = hue], hsvToRgb(hue, 255, brightness))
\* updateLED that animates in every render tick
updateLED_everytick(s, brightness, br) ==
  LET now == millis(s)
      flashOn == s.g_showingVolFlash
                   /\ ~(Elapsed(now, s.g_volFlashStart) >= VOLUME_FLASH_MS)
      s1 == IF s.g_showingVolFlash /\ ~flashOn
            THEN [s EXCEPT !.g_showingVolFlash = FALSE] ELSE s
      colorOn == s1.g_showingTrackColor
                   /\ ~(Elapsed(now, s1.g_trackColorStart) >= TRACK_COLOR_MS)
      s2 == IF s1.g_showingTrackColor /\ ~colorOn
            THEN [s1 EXCEPT !.g_showingTrackColor = FALSE] ELSE s1
  IN IF flashOn THEN s
     ELSE IF colorOn THEN s1
     ELSE CASE s2.g_state = STATE_PLAYING ->
                 breathingRainbow([s2 EXCEPT !.g_lastAnimTime = now], brightness)
            [] s2.g_state \in {STATE_PAUSED, STATE_IDLE} -> setLED(s2, LED_STANDBY)
            [] OTHER -> setLED(s2, <<br, 0, 0>>)

\* updateLED: brightness and br stand for the two sinf envelopes.
updateLED(s, brightness, br) ==
  LET now == millis(s)
      flashOn == s.g_showingVolFlash
                   /\ ~(Elapsed(now, s.g_volFlashStart) >= VOLUME_FLASH_MS)
      s1 == IF s.g_showingVolFlash /\ ~flashOn
            THEN [s EXCEPT !.g_showingVolFlash = FALSE] ELSE s
      colorOn == s1.g_showingTrackColor
                   /\ ~(Elapsed(now, s1.g_trackColorStart) >= TRACK_COLOR_MS)
      s2 == IF s1.g_showingTrackColor /\ ~colorOn
            THEN [s1 EXCEPT !.g_showingTrackColor = FALSE] ELSE s1
  IN IF flashOn THEN s
     ELSE IF colorOn THEN s1
     ELSE CASE s2.g_state = STATE_PLAYING ->
                 IF Elapsed(now, s2.g_lastAnimTime) >= RAINBOW_INTERVAL_MS
                 THEN breathingRainbow([s2 EXCEPT !.g_lastAnimTime = now], brightness)
                 ELSE s2
            [] s2.g_state \in {STATE_PAUSED, STATE_IDLE} -> setLED(s2, LED_STANDBY)
            [] OTHER -> setLED(s2, <<br, 0, 0>>)

----------------------------------------------------------------------------
(* The audio engine and the card, as the sketch drives them.               *)

\* audio.setVolume
setVolume(s, v) == Call([s EXCEPT !.engineVol = v], "setVolume", <<v>>)

\* audio.stopSong
stopSong(s) == Call([s EXCEPT !.stopped = TRUE], "stopSong", <<>>)

\* audio.pauseResume
pauseResume(s) == Call([s EXCEPT !.toggles = 1 - @], "pauseResume", <<>>)

\* audio.connecttoFS(SD, TRACK_FILES[idx]), which answers ok
connecttoFS(s, idx, ok) ==
  Call([s EXCEPT !.connected = IF ok THEN "ok" ELSE "fail",
                 !.stopped = FALSE,
                 !.toggles = IF ok THEN 0 ELSE @],
       "connecttoFS", <<idx, IF ok THEN 1 ELSE 0>>)

\* fileExists(TRACK_FILES[idx]) on a card holding the files F
fileExists(F, idx) == idx \in F

\* the probe of the card that a call of fileExists makes
probe(s, idx) == Call(s, "fileExists", <<idx>>)

----------------------------------------------------------------------------
(* Sleep, play, skip, pause, volume.                                       *)

enterSleep(s) == setLED([s EXCEPT !.g_sleeping = TRUE], LED_OFF)

\* search that goes on one step after every track was tried
RECURSIVE search_overrun(_, _, _)
search_overrun(s, F, tries) ==
  LET s1 == probe(s, s.g_track)
  IN IF ~fileExists(F, s.g_track) /\ tries <= NUM_TRACKS
     THEN search_overrun([s1 EXCEPT !.g_track = (@ + 1) % NUM_TRACKS],
                         F, tries + 1)
     ELSE <<s1, tries>>

\* search without the wrap of the index at NUM_TRACKS
RECURSIVE search_nowrap(_, _, _)
search_nowrap(s, F, tries) ==
  LET s1 == probe(s, s.g_track)
  IN IF ~fileExists(F, s.g_track) /\ tries < NUM_TRACKS
     THEN search_nowrap([s1 EXCEPT !.g_track = @ + 1], F, tries + 1)
     ELSE <<s1, tries>>

\* search that wraps the index one past the last track
RECURSIVE search_offbyone(_, _, _)
search_offbyone(s, F, tries) ==
  LET s1 == probe(s, s.g_track)
  IN IF ~fileExists(F, s.g_track) /\ tries < NUM_TRACKS
     THEN search_offbyone([s1 EXCEPT !.g_track = (@ + 1) % (NUM_TRACKS + 1)],
                          F, tries + 1)
     ELSE <<s1, tries>>

\* the while loop of playTrack: <<state, tries>> when it exits
RECURSIVE search(_, _, _)
search(s, F, tries) ==
  LET s1 == probe(s, s.g_track)
  IN IF ~fileExists(F, s.g_track) /\ tries < NUM_TRACKS
     THEN search([s1 EXCEPT !.g_track = (@ + 1) % NUM_TRACKS], F, tries + 1)
     ELSE <<s1, tries>>
\* startPlayback that falls back to Idle when the connect fails
startPlayback_idle(s, ok) ==
  LET s1 == connecttoFS(s, s.g_track, ok)
  IN IF ok THEN [s1 EXCEPT !.g_state = STATE_PLAYING]
     ELSE setLED([s1 EXCEPT !.g_state = STATE_IDLE], LED_ERROR)

\* startPlayback with the result of connecttoFS ignored
startPlayback_unchecked(s, ok) ==
  [connecttoFS(s, s.g_track, ok) EXCEPT !.g_state = STATE_PLAYING]
\* startPlayback that leaves the state alone when the connect fails
startPlayback_silent(s, ok) ==
  LET s1 == connecttoFS(s, s.g_track, ok)
  IN IF ok THEN [s1 EXCEPT !.g_state = STATE_PLAYING] ELSE s1
\* startPlayback that goes to sleep when the connect fails
startPlayback_sleep(s, ok) ==
  LET s1 == connecttoFS(s, s.g_track, ok)
  IN IF ok THEN [s1 EXCEPT !.g_state = STATE_PLAYING]
     ELSE enterSleep(setLED([s1 EXCEPT !.g_state = STATE_ERROR], LED_ERROR))

\* the connect at the end of playTrack
startPlayback(s, ok) ==
  LET s1 == connecttoFS(s, s.g_track, ok)
  IN IF ok THEN [s1 EXCEPT !.g_state = STATE_PLAYING]
     ELSE setLED([s1 EXCEPT !.g_state = STATE_ERROR], LED_ERROR)

\* the test after the search of playTrack: whether every track was tried
exhausted_late(tries) == tries > NUM_TRACKS

exhausted(tries) == tries >= NUM_TRACKS
\* playTrack that shows no colour for the track its search found
playTrack_stalecolor(s0, index, F, ok) ==
  LET s == Call(s0, "playTrack", <<index>>)
  IN
  IF ~s.g_sdReady THEN [s EXCEPT !.g_state = STATE_ERROR]
  ELSE LET idx == IF index < 0 \/ index >= NUM_TRACKS THEN 0 ELSE index
           s1  == showTrackColor([s EXCEPT !.g_track = idx], idx)
           s2  == probe(s1, s1.g_track)
       IN IF ~fileExists(F, s1.g_track)
          THEN LET r     == search(s2, F, 0)
                   s3    == r[1]
                   tries == r[2]
               IN IF exhausted(tries)
                  THEN setLED([s3 EXCEPT !.g_state = STATE_ERROR], LED_ERROR)
                  ELSE startPlayback(s3, ok)
          ELSE startPlayback(s2, ok)

\* playTrack that does not ask whether the card mounted
playTrack_nocard(s0, index, F, ok) ==
  LET s   == Call(s0, "playTrack", <<index>>)
      idx == IF index < 0 \/ index >= NUM_TRACKS THEN 0 ELSE index
      s1  == showTrackColor([s EXCEPT !.g_track = idx], idx)
      s2  == probe(s1, s1.g_track)
  IN IF ~fileExists(F, s1.g_track)
     THEN LET r     == search(s2, F, 0)
              s3    == r[1]
              tries == r[2]
          IN IF exhausted(tries)
             THEN setLED([s3 EXCEPT !.g_state = STATE_ERROR], LED_ERROR)
             ELSE startPlayback(showTrackColor(s3, s3.g_track), ok)
     ELSE startPlayback(s2, ok)

playTrack(s0, index, F, ok) ==
  LET s == Call(s0, "playTrack", <<index>>)
  IN
  IF ~s.g_sdReady THEN [s EXCEPT !.g_state = STATE_ERROR]
  ELSE LET idx == IF index < 0 \/ index >= NUM_TRACKS THEN 0 ELSE index
           s1  == showTrackColor([s EXCEPT !.g_track = idx], idx)
           s2  == probe(s1, s1.g_track)
       IN IF ~fileExists(F, s1.g_track)
          THEN LET r     == search(s2, F, 0)
                   s3    == r[1]
                   tries == r[2]
               IN IF exhausted(tries)
                  THEN setLED([s3 EXCEPT !.g_state = STATE_ERROR], LED_ERROR)
                  ELSE startPlayback(showTrackColor(s3, s3.g_track), ok)
          ELSE startPlayback(s2, ok)
\* nextTrack that does not stop the engine first
nextTrack_nostop(s, F, ok) ==
  playTrack(s, (s.g_track + 1) % NUM_TRACKS, F, ok)

nextTrack(s, F, ok) ==
  playTrack(stopSong(s), (s.g_track + 1) % NUM_TRACKS, F, ok)
\* togglePlayPause that answers a press in Error with the resume command
togglePlayPause_resume(s, F, ok) ==
  CASE s.g_state = STATE_IDLE -> playTrack(s, s.g_track, F, ok)
    [] s.g_state = STATE_PLAYING ->
         enterSleep([pauseResume(s) EXCEPT !.g_state = STATE_PAUSED])
    [] s.g_state = STATE_PAUSED ->
         [pauseResume(s) EXCEPT !.g_state = STATE_PLAYING]
    [] OTHER -> [pauseResume(s) EXCEPT !.g_state = STATE_PLAYING]

\* togglePlayPause that pauses without going to sleep
togglePlayPause_awake(s, F, ok) ==
  CASE s.g_state = STATE_IDLE -> playTrack(s, s.g_track, F, ok)
    [] s.g_state = STATE_PLAYING ->
         [pauseResume(s) EXCEPT !.g_state = STATE_PAUSED]
    [] s.g_state = STATE_PAUSED ->
         [pauseResume(s) EXCEPT !.g_state = STATE_PLAYING]
    [] OTHER -> playTrack(s, s.g_track, F, ok)
\* togglePlayPause that skips to the next track on a retry
togglePlayPause_skip(s, F, ok) ==
  CASE s.g_state = STATE_IDLE -> playTrack(s, s.g_track, F, ok)
    [] s.g_state = STATE_PLAYING ->
         enterSleep([pauseResume(s) EXCEPT !.g_state = STATE_PAUSED])
    [] s.g_state = STATE_PAUSED ->
         [pauseResume(s) EXCEPT !.g_state = STATE_PLAYING]
    [] OTHER -> nextTrack(s, F, ok)

togglePlayPause(s, F, ok) ==
  CASE s.g_state = STATE_IDLE -> playTrack(s, s.g_track, F, ok)
    [] s.g_state = STATE_PLAYING ->
         enterSleep([pauseResume(s) EXCEPT !.g_state = STATE_PAUSED])
    [] s.g_state = STATE_PAUSED ->
         [pauseResume(s) EXCEPT !.g_state = STATE_PLAYING]
    [] OTHER -> playTrack(s, s.g_track, F, ok)
\* wakeUp that leaves a paused player paused
wakeUp_paused(s, clk, F, ok) ==
  LET s1 == [digitalRead(delay([s EXCEPT !.g_sleeping = FALSE], WAKE_DELAY_MS),
                         PIN_ENC_CLK, clk) EXCEPT
               !.g_encLastCLK = clk,
               !.g_swPressed = FALSE,
               !.g_swHandled = FALSE]
  IN IF s1.g_state = STATE_IDLE
     THEN playTrack(s1, s1.g_track, F, ok)
     ELSE s1

\* wakeUp that starts the track afresh after a pause
wakeUp_replay(s, clk, F, ok) ==
  LET s1 == [digitalRead(delay([s EXCEPT !.g_sleeping = FALSE], WAKE_DELAY_MS),
                         PIN_ENC_CLK, clk) EXCEPT
               !.g_encLastCLK = clk,
               !.g_swPressed = FALSE,
               !.g_swHandled = FALSE]
  IN IF s1.g_state \in {STATE_PAUSED, STATE_IDLE}
     THEN playTrack(s1, s1.g_track, F, ok)
     ELSE s1
\* wakeUp that leaves the sleep flag set
wakeUp_drowsy(s, clk, F, ok) ==
  LET s1 == [digitalRead(delay(s, WAKE_DELAY_MS), PIN_ENC_CLK, clk) EXCEPT
               !.g_encLastCLK = clk,
               !.g_swPressed = FALSE,
               !.g_swHandled = FALSE]
  IN IF s1.g_state = STATE_PAUSED
     THEN [pauseResume(s1) EXCEPT !.g_state = STATE_PLAYING]
     ELSE IF s1.g_state = STATE_IDLE
     THEN playTrack(s1, s1.g_track, F, ok)
     ELSE s1

\* wakeUp: clk is the level of CLK read after the delay
wakeUp(s, clk, F, ok) ==
  LET s1 == [digitalRead(delay([s EXCEPT !.g_sleeping = FALSE], WAKE_DELAY_MS),
                         PIN_ENC_CLK, clk) EXCEPT
               !.g_encLastCLK = clk,
               !.g_swPressed = FALSE,
               !.g_swHandled = FALSE]
  IN IF s1.g_state = STATE_PAUSED
     THEN [pauseResume(s1) EXCEPT !.g_state = STATE_PLAYING]
     ELSE IF s1.g_state = STATE_IDLE
     THEN playTrack(s1, s1.g_track, F, ok)
     ELSE s1

\* constrain without the upper limit
constrain_open(x, lo, hi) == IF x < lo THEN lo ELSE x

\* constrain(x, lo, hi)
constrain(x, lo, hi) == IF x < lo THEN lo ELSE IF x > hi THEN hi ELSE x

\* adjustVolume that flashes whether or not the volume changed
adjustVolume_flash(s, delta) ==
  LET newVol == constrain(s.g_volume + delta, VOLUME_MIN, VOLUME_MAX)
  IN showVolumeFlash(IF newVol # s.g_volume
                     THEN setVolume([s EXCEPT !.g_volume = newVol], newVol)
                     ELSE s)

\* adjustVolume that stops one step short of VOLUME_MAX
adjustVolume_short(s, delta) ==
  LET newVol == constrain(s.g_volume + delta, VOLUME_MIN, VOLUME_MAX - 1)
  IN IF newVol # s.g_volume
     THEN showVolumeFlash(setVolume([s EXCEPT !.g_volume = newVol], newVol))
     ELSE s

\* adjustVolume that also clears the error state
adjustVolume_clear(s, delta) ==
  LET newVol == constrain(s.g_volume + delta, VOLUME_MIN, VOLUME_MAX)
  IN IF newVol # s.g_volume
     THEN [showVolumeFlash(setVolume([s EXCEPT !.g_volume = newVol], newVol)) EXCEPT
             !.g_state = IF @ = STATE_ERROR THEN STATE_IDLE ELSE @]
     ELSE s

adjustVolume(s, delta) ==
  LET newVol == constrain(s.g_volume + delta, VOLUME_MIN, VOLUME_MAX)
  IN IF newVol # s.g_volume
     THEN showVolumeFlash(setVolume([s EXCEPT !.g_volume = newVol], newVol))
     ELSE s

----------------------------------------------------------------------------
(* Input.                                                                  *)

\* handleEncoder without the debounce window
handleEncoder_nodebounce(s, clk, dt) ==
  LET s0 == digitalRead(s, PIN_ENC_CLK, clk)
      delta == IF dt # clk THEN VOLUME_STEP ELSE -VOLUME_STEP
      s1 == IF clk # s0.g_encLastCLK /\ clk = LOW
            THEN adjustVolume(
                   Call(digitalRead([s0 EXCEPT !.g_encLastTime = millis(s0)],
                                    PIN_ENC_DT, dt),
                        "VolumeStep", <<delta>>),
                   delta)
            ELSE s0
  IN [s1 EXCEPT !.g_encLastCLK = clk]
\* handleEncoder with the sense of rotation reversed
handleEncoder_reversed(s, clk, dt) ==
  LET s0 == digitalRead(s, PIN_ENC_CLK, clk)
  IN IF Elapsed(millis(s0), s0.g_encLastTime) < DEBOUNCE_ENCODER_MS THEN s0
     ELSE LET delta == IF dt = clk THEN VOLUME_STEP ELSE -VOLUME_STEP
              s1 == IF clk # s0.g_encLastCLK /\ clk = LOW
                    THEN adjustVolume(
                           Call(digitalRead([s0 EXCEPT !.g_encLastTime = millis(s0)],
                                            PIN_ENC_DT, dt),
                                "VolumeStep", <<delta>>),
                           delta)
                    ELSE s0
          IN [s1 EXCEPT !.g_encLastCLK = clk]

\* handleEncoder: clk and dt are the levels of CLK and DT
handleEncoder(s, clk, dt) ==
  LET s0 == digitalRead(s, PIN_ENC_CLK, clk)
  IN IF Elapsed(millis(s0), s0.g_encLastTime) < DEBOUNCE_ENCODER_MS THEN s0
     ELSE LET delta == IF dt # clk THEN VOLUME_STEP ELSE -VOLUME_STEP
              s1 == IF clk # s0.g_encLastCLK /\ clk = LOW
                    THEN adjustVolume(
                           Call(digitalRead([s0 EXCEPT !.g_encLastTime = millis(s0)],
                                            PIN_ENC_DT, dt),
                                "VolumeStep", <<delta>>),
                           delta)
                    ELSE s0
          IN [s1 EXCEPT !.g_encLastCLK = clk]

\* handleEncoderSwitch that takes any release for a short press
handleEncoderSwitch_nodebounce(s, sw, F, ok) ==
  LET s0 == digitalRead(s, PIN_ENC_SW, sw)
      pressed == (sw = LOW)
      now == millis(s0)
      s1 == IF pressed /\ ~s0.g_swPressed
            THEN [s0 EXCEPT !.g_swPressStart = now,
                            !.g_swPressed = TRUE,
                            !.g_swHandled = FALSE]
            ELSE s0
      s2 == IF pressed /\ s1.g_swPressed /\ ~s1.g_swHandled
               /\ Elapsed(now, s1.g_swPressStart) >= LONG_PRESS_MS
            THEN [nextTrack(Call(s1, "LongPress", <<>>), F, ok) EXCEPT
                    !.g_swHandled = TRUE]
            ELSE s1
      s3 == IF ~pressed /\ s2.g_swPressed
            THEN [(IF ~s2.g_swHandled
                   THEN togglePlayPause(Call(s2, "ShortPress", <<>>), F, ok)
                   ELSE s2) EXCEPT
                    !.g_swPressed = FALSE,
                    !.g_swHandled = FALSE]
            ELSE s2
  IN s3

\* handleEncoderSwitch: sw is the level of SW (active LOW)
handleEncoderSwitch(s, sw, F, ok) ==
  LET s0 == digitalRead(s, PIN_ENC_SW, sw)
      pressed == (sw = LOW)
      now == millis(s0)
      s1 == IF pressed /\ ~s0.g_swPressed
            THEN [s0 EXCEPT !.g_swPressStart = now,
                            !.g_swPressed = TRUE,
                            !.g_swHandled = FALSE]
            ELSE s0
      s2 == IF pressed /\ s1.g_swPressed /\ ~s1.g_swHandled
               /\ Elapsed(now, s1.g_swPressStart) >= LONG_PRESS_MS
            THEN [nextTrack(Call(s1, "LongPress", <<>>), F, ok) EXCEPT
                    !.g_swHandled = TRUE]
            ELSE s1
      s3 == IF ~pressed /\ s2.g_swPressed
            THEN [(IF ~s2.g_swHandled
                      /\ Elapsed(now, s2.g_swPressStart) >= DEBOUNCE_BUTTON_MS
                   THEN togglePlayPause(Call(s2, "ShortPress", <<>>), F, ok)
                   ELSE s2) EXCEPT
                    !.g_swPressed = FALSE,
                    !.g_swHandled = FALSE]
            ELSE s2
  IN s3

----------------------------------------------------------------------------
(* Audio callbacks and the service step.                                   *)

audio_eof_mp3(s, F, ok) == nextTrack(Call(s, "audio_eof_mp3", <<>>), F, ok)
\* audio_error that also stops the engine
audio_error_stop(s) ==
  setLED([stopSong(Call(s, "audio_error", <<>>)) EXCEPT !.g_state = STATE_ERROR],
         LED_ERROR)
\* audio_error that drops to Idle
audio_error_idle(s) ==
  setLED([Call(s, "audio_error", <<>>) EXCEPT !.g_state = STATE_IDLE], LED_ERROR)

audio_error(s) ==
  setLED([Call(s, "audio_error", <<>>) EXCEPT !.g_state = STATE_ERROR], LED_ERROR)

Notifications == {"none", "eof", "error"}
\* audio.loop() left out of loop()
audioLoop_skipped(s, notif, F, ok) == s

\* audio.loop(), during which the engine delivers at most one notification
audioLoop(s, notif, F, ok) ==
  LET s1 == Call(s, "audio.loop", <<>>)
  IN CASE notif = "eof"   -> audio_eof_mp3(s1, F, ok)
       [] notif = "error" -> audio_error(s1)
       [] OTHER           -> s1

----------------------------------------------------------------------------
(* setup() and the sleeping branch of loop().                              *)

NoVolume == -1

\* the globals as initialised at their definitions
PowerOn ==
  [ g_state |-> STATE_IDLE, g_track |-> 0, g_volume |-> VOLUME_DEFAULT,
    g_sdReady |-> FALSE, g_sleeping |-> FALSE,
    g_encLastCLK |-> HIGH, g_encLastTime |-> 0,
    g_swPressStart |-> 0, g_swPressed |-> FALSE, g_swHandled |-> FALSE,
    g_rainbowHue |-> 0, g_lastAnimTime |-> 0,
    g_trackColorStart |-> 0, g_showingTrackColor |-> FALSE,
    g_volFlashStart |-> 0, g_showingVolFlash |-> FALSE,
    now |-> 0, led |-> LED_OFF,
    engineVol |-> NoVolume, connected |-> "none", stopped |-> FALSE, toggles |-> 0,
    io |-> <<>> ]

setupAudio(s) == setVolume(s, s.g_volume)

RECURSIVE scanTracks(_, _)
scanTracks(s, i) ==
  IF i < NUM_TRACKS THEN scanTracks(probe(s, i), i + 1) ELSE s

\* setup(): sdOk is whether the card mounted, clk the level of CLK
setup(s, sdOk, clk) ==
  LET s1 == [digitalRead(delay(s, SETUP_DELAY_MS), PIN_ENC_CLK, clk) EXCEPT
               !.g_encLastCLK = clk]
      s2 == [setLED(s1, LED_INIT) EXCEPT !.g_sdReady = sdOk]
  IN IF s2.g_sdReady
     THEN enterSleep([scanTracks(setupAudio(s2), 0) EXCEPT
                        !.g_track = 0, !.g_state = STATE_IDLE])
     ELSE setLED([s2 EXCEPT !.g_state = STATE_ERROR], LED_ERROR)
\* sleepPoll that takes a turn of the knob for a volume step and sleeps on
sleepPoll_volume(s, sw, clk, clk2, F, ok) ==
  LET s0 == digitalRead(s, PIN_ENC_SW, sw)
      s1 == IF sw = LOW THEN s0 ELSE digitalRead(s0, PIN_ENC_CLK, clk)
      s2 == IF sw = LOW
            THEN wakeUp(Call(s1, "wakeUp", <<>>), clk2, F, ok)
            ELSE IF clk # s1.g_encLastCLK
            THEN handleEncoder(s1, clk, clk2)
            ELSE s1
  IN delay(s2, SLEEP_POLL_MS)

\* sleepPoll that wakes on the button only
sleepPoll_button(s, sw, clk, clk2, F, ok) ==
  LET s0 == digitalRead(s, PIN_ENC_SW, sw)
      s1 == IF sw = LOW THEN s0 ELSE digitalRead(s0, PIN_ENC_CLK, clk)
      s2 == IF sw = LOW
            THEN wakeUp(Call(s1, "wakeUp", <<>>), clk2, F, ok)
            ELSE s1
  IN delay(s2, SLEEP_POLL_MS)

\* the sleeping branch of loop(): sw and clk are the levels polled, clk2 the
\* level of CLK that wakeUp reads
sleepPoll(s, sw, clk, clk2, F, ok) ==
  LET s0 == digitalRead(s, PIN_ENC_SW, sw)
      s1 == IF sw = LOW THEN s0 ELSE digitalRead(s0, PIN_ENC_CLK, clk)
      s2 == IF sw = LOW \/ clk # s1.g_encLastCLK
            THEN wakeUp(Call(s1, "wakeUp", <<>>), clk2, F, ok)
            ELSE s1
  IN delay(s2, SLEEP_POLL_MS)

----------------------------------------------------------------------------
(* The actions: one per step of loop(), and the environment.               *)

Levels == {LOW, HIGH}

\* the envelope values the model lets the sinf terms take
BreathLevels == {BREATH_MIN, BREATH_MAX}
ErrorLevels == {ERR_MIN, ERR_MIN + 2 * ERR_AMPL}

\* a handler starts with an empty log
Begin(s) == [s EXCEPT !.io = <<>>]

\* the run is followed for horizon milliseconds from the end of setup()
InHorizon(s) == Elapsed(s.now, t0) <= horizon

\* loop(), sleeping: poll, perhaps wake, wait
SleepPoll(Clks, Oks) ==
  /\ pc = "loop"
  /\ m.g_sleeping
  /\ \E clk \in Clks, clk2 \in Clks, ok \in Oks :
       /\ m' = sleepPoll(Begin(m), btn.sw, clk, clk2, files, ok)
       /\ InHorizon(m')
  /\ UNCHANGED <<pc, files, t0, horizon, btn>>

\* loop(), awake: audio.loop()
AudioLoop(Ns, Oks) ==
  /\ pc = "loop"
  /\ ~m.g_sleeping
  /\ \E notif \in Ns, ok \in Oks : m' = audioLoop(Begin(m), notif, files, ok)
  /\ pc' = "enc"
  /\ UNCHANGED <<files, t0, horizon, btn>>

HandleEncoder(Clks, Dts) ==
  /\ pc = "enc"
  /\ \E clk \in Clks, dt \in Dts : m' = handleEncoder(Begin(m), clk, dt)
  /\ pc' = "sw"
  /\ UNCHANGED <<files, t0, horizon, btn>>

\* the record of the press, kept beside handleEncoderSwitch: a press starts
\* when the handler stores g_swPressStart and ends when the handler sees SW
\* high again; longs and shorts count the gestures dispatched for it
Tally(b, s, log) ==
  LET starts == (b.sw = LOW /\ ~s.g_swPressed)
  IN [b EXCEPT !.held = IF starts THEN TRUE ELSE @,
               !.ended = (b.sw = HIGH /\ s.g_swPressed),
               !.relLong = IF starts THEN FALSE ELSE @,
               !.longs = (IF starts THEN 0 ELSE @) + Count(log, "LongPress"),
               !.shorts = (IF starts THEN 0 ELSE @) + Count(log, "ShortPress")]

HandleEncoderSwitch(Oks) ==
  /\ pc = "sw"
  /\ \E ok \in Oks : m' = handleEncoderSwitch(Begin(m), btn.sw, files, ok)
  /\ btn' = Tally(btn, m, m'.io)
  /\ pc' = "led"
  /\ UNCHANGED <<files, t0, horizon>>

UpdateLED ==
  /\ pc = "led"
  /\ \E brightness \in BreathLevels, br \in ErrorLevels :
       m' = updateLED(Begin(m), brightness, br)
  /\ pc' = "loop"
  /\ UNCHANGED <<files, t0, horizon, btn>>

\* time passes between two iterations of loop()
Tick(Steps) ==
  /\ pc = "loop"
  /\ \E d \in Steps :
       /\ m' = delay(m, d)
       /\ InHorizon(m')
  /\ UNCHANGED <<pc, files, t0, horizon, btn>>

\* the user presses or releases the knob.  held: SW has been low without a
\* break since the handler stored g_swPressStart; relLong: it was released
\* after being so held for at least LONG_PRESS_MS
SwChange ==
  /\ pc = "loop"
  /\ btn' = [btn EXCEPT
               !.sw = IF @ = LOW THEN HIGH ELSE LOW,
               !.held = FALSE,
               !.relLong = /\ btn.sw = LOW
                           /\ btn.held
                           /\ m.g_swPressed
                           /\ Elapsed(millis(m), m.g_swPressStart) >= LONG_PRESS_MS]
  /\ UNCHANGED <<m, pc, files, t0, horizon>>

\* a file appears on the card or disappears from it (the card is rewritten
\* or exchanged)
CardChange ==
  /\ pc = "loop"
  /\ \E k \in 0 .. (NUM_TRACKS - 1) :
       files' = IF k \in files THEN files \ {k} ELSE files \cup {k}
  /\ UNCHANGED <<m, pc, t0, horizon, btn>>

----------------------------------------------------------------------------
(* Spec: the sketch from the end of setup(), with any of the cards below,  *)
(* any pin levels, any notification and any connect result; between two    *)
(* iterations of loop() time stands still or jumps by LONG_PRESS_MS.       *)

Tracks == 0 .. (NUM_TRACKS - 1)

\* the cards the runs of Spec start with
Cards == {{}, {5}, {0, 1}, Tracks}

TimeSteps == {LONG_PRESS_MS}

InitWith(Fs, SdOks, Sws, H) ==
  /\ horizon = H
  /\ files \in Fs
  /\ \E sdOk \in SdOks, clk \in Levels : m = Begin(setup(PowerOn, sdOk, clk))
  /\ pc = "loop"
  /\ t0 = SETUP_DELAY_MS
  /\ \E sw \in Sws :
       btn = [sw |-> sw, held |-> FALSE, ended |-> FALSE, relLong |-> FALSE,
              longs |-> 0, shorts |-> 0]

Init == InitWith(Cards, BOOLEAN, Levels, MaxTime)

Next ==
  \/ SleepPoll(Levels, BOOLEAN)
  \/ AudioLoop(Notifications, BOOLEAN)
  \/ HandleEncoder(Levels, Levels)
  \/ HandleEncoderSwitch(BOOLEAN)
  \/ UpdateLED
  \/ Tick(TimeSteps)
  \/ SwChange

Spec == Init /\ [][Next]_vars

----------------------------------------------------------------------------
(* SpecVolume: the knob is turned and never pressed, every track is on the *)
(* card and plays; loop() runs every DEBOUNCE_ENCODER_MS or faster.        *)

InitVolume == InitWith({Tracks}, BOOLEAN, {HIGH}, MaxVolTime)

NextVolume ==
  \/ SleepPoll(Levels, {TRUE})
  \/ AudioLoop({"none"}, {TRUE})
  \/ HandleEncoder(Levels, Levels)
  \/ HandleEncoderSwitch({TRUE})
  \/ UpdateLED
  \/ Tick({DEBOUNCE_ENCODER_MS})

SpecVolume == InitVolume /\ [][NextVolume]_vars

----------------------------------------------------------------------------
(* SpecCatalog: every card there can be, changing at will.  The sketch is *)
(* woken by a turn of the knob and tracks end one after the other; the     *)
(* knob is not pressed and no time passes but the delays of the sketch.    *)

InitCatalog == InitWith(SUBSET Tracks, {TRUE}, {HIGH}, MaxCatalogTime)

NextCatalog ==
  \/ SleepPoll(Levels, BOOLEAN)
  \/ AudioLoop({"none", "eof"}, BOOLEAN)
  \/ HandleEncoder({HIGH}, {HIGH})
  \/ HandleEncoderSwitch({TRUE})
  \/ UpdateLED
  \/ CardChange

SpecCatalog == InitCatalog /\ [][NextCatalog]_vars

----------------------------------------------------------------------------
(* SpecButton: the card mounts or not, the knob is pressed, never turned;  *)
(* loop() runs one millisecond, or one less than DEBOUNCE_BUTTON_MS, after *)
(* it last ran.                                                            *)

InitButton == InitWith({Tracks}, BOOLEAN, Levels, MaxButtonTime)

NextButton ==
  \/ SleepPoll({HIGH}, {TRUE})
  \/ AudioLoop({"none"}, {TRUE})
  \/ HandleEncoder({HIGH}, {HIGH})
  \/ HandleEncoderSwitch({TRUE})
  \/ UpdateLED
  \/ Tick({1, DEBOUNCE_BUTTON_MS - 1})
  \/ SwChange

SpecButton == InitButton /\ [][NextButton]_vars

----------------------------------------------------------------------------
(* SpecEncoder: the card mounted, the knob is turned and never pressed;    *)
(* loop() runs one millisecond, or one less than DEBOUNCE_ENCODER_MS,      *)
(* after it last ran.                                                      *)

InitEncoder == InitWith({Tracks}, {TRUE}, {HIGH}, MaxEncoderTime)

NextEncoder ==
  \/ SleepPoll(Levels, {TRUE})
  \/ AudioLoop({"none"}, {TRUE})
  \/ HandleEncoder(Levels, Levels)
  \/ HandleEncoderSwitch({TRUE})
  \/ UpdateLED
  \/ Tick({1, DEBOUNCE_ENCODER_MS - 1})

SpecEncoder == InitEncoder /\ [][NextEncoder]_vars

----------------------------------------------------------------------------
(* SpecLed: every track is on the card and plays, the knob is turned and   *)
(* never pressed; loop() runs VOLUME_FLASH_MS after it last ran, or at     *)
(* once.                                                                   *)

InitLed == InitWith({Tracks}, {TRUE}, {HIGH}, MaxLedTime)

NextLed ==
  \/ SleepPoll(Levels, {TRUE})
  \/ AudioLoop({"none"}, {TRUE})
  \/ HandleEncoder(Levels, Levels)
  \/ HandleEncoderSwitch({TRUE})
  \/ UpdateLED
  \/ Tick({VOLUME_FLASH_MS})

SpecLed == InitLed /\ [][NextLed]_vars

----------------------------------------------------------------------------
(* SpecSleep: every track is on the card and plays, the card mounts or     *)
(* not; the knob is pressed, and turned only to wake the sketch; loop()    *)
(* runs at once, DEBOUNCE_BUTTON_MS or TRACK_COLOR_MS after it last ran.   *)

InitSleep == InitWith({Tracks}, BOOLEAN, Levels, MaxSleepTime)

NextSleep ==
  \/ SleepPoll(Levels, {TRUE})
  \/ AudioLoop({"none"}, {TRUE})
  \/ HandleEncoder({HIGH}, {HIGH})
  \/ HandleEncoderSwitch({TRUE})
  \/ UpdateLED
  \/ Tick({DEBOUNCE_BUTTON_MS, TRACK_COLOR_MS})
  \/ SwChange

SpecSleep == InitSleep /\ [][NextSleep]_vars

----------------------------------------------------------------------------
(* SpecOverlay: tracks 0 and 1 are on the card and play, a track ends at   *)
(* any time, the knob is turned and never pressed; loop() runs at once,    *)
(* half of VOLUME_FLASH_MS or TRACK_COLOR_MS less than half after it last  *)
(* ran.                                                                    *)

OverlaySteps == {VOLUME_FLASH_MS \div 2, TRACK_COLOR_MS - VOLUME_FLASH_MS \div 2}

InitOverlay == InitWith({{0, 1}}, {TRUE}, {HIGH}, MaxOverlayTime)

NextOverlay ==
  \/ SleepPoll(Levels, {TRUE})
  \/ AudioLoop({"none", "eof"}, {TRUE})
  \/ HandleEncoder(Levels, Levels)
  \/ HandleEncoderSwitch({TRUE})
  \/ UpdateLED
  \/ Tick(OverlaySteps)

SpecOverlay == InitOverlay /\ [][NextOverlay]_vars

----------------------------------------------------------------------------
(* SpecWake: every track is on the card and plays and the card mounts; the *)
(* knob is down when setup() ends, is released at most once and is never   *)
(* pressed again, so that the one press of a run is the press that wakes   *)
(* the sketch; the knob is turned only to wake the sketch; loop() runs at  *)
(* once, DEBOUNCE_BUTTON_MS or LONG_PRESS_MS after it last ran.            *)

\* the user lets go of the knob
SwRelease == btn.sw = LOW /\ SwChange

InitWake == InitWith({Tracks}, {TRUE}, {LOW}, MaxWakeTime)

NextWake ==
  \/ SleepPoll(Levels, {TRUE})
  \/ AudioLoop({"none"}, {TRUE})
  \/ HandleEncoder({HIGH}, {HIGH})
  \/ HandleEncoderSwitch({TRUE})
  \/ UpdateLED
  \/ Tick({DEBOUNCE_BUTTON_MS, LONG_PRESS_MS})
  \/ SwRelease

SpecWake == InitWake /\ [][NextWake]_vars

----------------------------------------------------------------------------
(* SpecWrap: every track is on the card and plays and the card mounts; the *)
(* knob is pressed and turned; loop() runs at once, a long press or a      *)
(* track colour after it last ran.                                         *)

WrapSteps == {LONG_PRESS_MS, TRACK_COLOR_MS}

InitWrap == InitWith({Tracks}, {TRUE}, {HIGH}, MaxWrapTime)

NextWrap ==
  \/ SleepPoll(Levels, {TRUE})
  \/ AudioLoop({"none"}, {TRUE})
  \/ HandleEncoder(Levels, {HIGH})
  \/ HandleEncoderSwitch({TRUE})
  \/ UpdateLED
  \/ Tick(WrapSteps)
  \/ SwChange

SpecWrap == InitWrap /\ [][NextWrap]_vars

----------------------------------------------------------------------------
(* Properties.                                                             *)

\* the arguments of the calls called name in a log, in order
Args(log, name) == [k \in DOMAIN Named(log, name) |-> Named(log, name)[k][2]]

\* C1: whenever the player state is Playing, the last connect command the
\* audio engine got returned success and no stop command followed it.
C1_PlayingHasOpenStream ==
  m.g_state = STATE_PLAYING => (m.connected = "ok" /\ ~m.stopped)

\* C1: Playing again at the top of loop() after a wake from Paused.
C1_Witness ==
  /\ pc = "loop"
  /\ m.g_state = STATE_PLAYING
  /\ Count(m.io, "wakeUp") = 1
  /\ Count(m.io, "pauseResume") = 1

\* the first index of the card F in the cyclic order i, i+1, ..., i+N-1
FirstFrom(i, F) ==
  LET d == CHOOSE k \in 0 .. (NUM_TRACKS - 1) :
             /\ (i + k) % NUM_TRACKS \in F
             /\ \A j \in 0 .. (k - 1) : (i + j) % NUM_TRACKS \notin F
  IN (i + d) % NUM_TRACKS

\* a sequence with each immediate repetition dropped
RECURSIVE Dedup(_)
Dedup(q) ==
  IF Len(q) <= 1 THEN q
  ELSE IF q[1] = q[2] THEN Dedup(Tail(q))
  ELSE <<q[1]>> \o Dedup(Tail(q))

\* the indices i, i+1, ..., j in cyclic order
CyclicRun(i, j) ==
  [k \in 1 .. (((j - i) % NUM_TRACKS) + 1) |-> <<(i + k - 1) % NUM_TRACKS>>]

\* what C2 says of a handler that called playTrack(i) on the card F and got
\* success from connecttoFS, s being the state the handler left
FallbackHolds(s, F) ==
  LET i == Args(s.io, "playTrack")[1][1]
      t == FirstFrom(i, F)
  IN /\ s.g_state = STATE_PLAYING
     /\ s.g_track = t
     /\ Args(s.io, "connecttoFS") = << <<t, 1>> >>
     /\ Dedup(Args(s.io, "fileExists")) = CyclicRun(i, t)

\* C2: a handler that calls playTrack(i) with i in [0,N), on a card that
\* holds some track, the card mounted and connect succeeding, ends Playing
\* on the first existing track in cyclic order from i, connects exactly that
\* track, and probes i, i+1, ... up to it in that order.
C2_TrackSelectFallback ==
  [][ (/\ m' # m
       /\ Count(m'.io, "playTrack") = 1
       /\ m'.g_sdReady
       /\ files' # {}
       /\ Args(m'.io, "playTrack")[1][1] \in Tracks
       /\ <<"connecttoFS", <<m'.g_track, 0>>>> \notin
            {m'.io[k] : k \in DOMAIN m'.io})
      => FallbackHolds(m', files') ]_vars

\* C2: only track 5 exists, track 0 was selected, and track 5 plays after
\* the probes of 0, 1, 2, 3 and 4.
C2_Witness ==
  /\ files = {5}
  /\ Args(m.io, "playTrack") = << <<0>> >>
  /\ m.g_state = STATE_PLAYING
  /\ m.g_track = 5
  /\ Dedup(Args(m.io, "fileExists")) = << <<0>>, <<1>>, <<2>>, <<3>>, <<4>>, <<5>> >>

\* C3: a handler that selects a track while the card holds none (from a
\* short press, a long press, an end of track or a wake) leaves the state
\* Error and sends no connect command.
C3_TotalFailure ==
  (files = {} /\ Count(m.io, "playTrack") > 0)
    => (m.g_state = STATE_ERROR /\ Count(m.io, "connecttoFS") = 0)

\* C3: a long press on a mounted card without tracks ended in Error, after
\* the search went round the whole catalog.
C3_Witness ==
  /\ files = {}
  /\ m.g_sdReady
  /\ Count(m.io, "LongPress") = 1
  /\ Count(m.io, "playTrack") = 1
  /\ Count(m.io, "fileExists") > NUM_TRACKS
  /\ m.g_state = STATE_ERROR

\* the steps of VolumeStep events in a log
Steps(log) == [k \in DOMAIN Args(log, "VolumeStep") |-> Args(log, "VolumeStep")[k][1]]

\* the step of handleEncoder about to be taken dispatches VolumeStep(d)
StepsBy(d) == pc = "enc" /\ Steps(m'.io) = <<d>>

\* clamp(x, 0, 21), written out
Clamped(x) == IF x < 0 THEN 0 ELSE IF x > 21 THEN 21 ELSE x

\* C4: the volume starts at 15 and stays within [0, 21]; a VolumeStep(d)
\* sets it to clamp(volume + d, 0, 21); whenever setVolume has been called,
\* the value it last sent is the current volume, and it has been called by
\* the end of setup() when the card mounted.
C4_VolumeBounds ==
  /\ m.g_volume = 15
  /\ [](/\ m.g_volume \in 0 .. 21
        /\ m.engineVol # NoVolume => m.engineVol = m.g_volume
        /\ m.g_sdReady => m.engineVol # NoVolume)
  /\ [][\A d \in {-1, 1} :
          StepsBy(d) => m'.g_volume = Clamped(m.g_volume + d)]_vars

\* C4: the volume has gone all the way down to 0, step by step.
C4_Witness ==
  /\ m.g_volume = 0
  /\ Steps(m.io) = <<-1>>
  /\ Args(m.io, "setVolume") = << <<0>> >>

\* a step at a limit of the range, which the clamp undoes
AtLimit(d) ==
  \/ m.g_volume = VOLUME_MIN /\ d = -1
  \/ m.g_volume = VOLUME_MAX /\ d = 1

\* C5: a VolumeStep that the clamp undoes (down at 0, up at 21) leaves the
\* volume, the flash overlay and its timer and the LED as they were, and
\* makes no LED write and no setVolume call.
C5_ClampedNoOp ==
  [][\A d \in {-1, 1} :
       (StepsBy(d) /\ AtLimit(d)) =>
          /\ m'.g_volume = m.g_volume
          /\ m'.g_showingVolFlash = m.g_showingVolFlash
          /\ m'.g_volFlashStart = m.g_volFlashStart
          /\ m'.led = m.led
          /\ Count(m'.io, "setLED") = 0
          /\ Count(m'.io, "setVolume") = 0]_vars

\* C5: a step down was dispatched at volume 0 while the flash of an earlier
\* step was showing, and the timer of the flash was not restarted.
C5_Witness ==
  /\ pc = "sw"
  /\ m.g_volume = VOLUME_MIN
  /\ Steps(m.io) = <<-1>>
  /\ Count(m.io, "setVolume") = 0
  /\ m.g_showingVolFlash
  /\ m.g_volFlashStart # m.now

\* C6: from a volume v with 0 < v < 21, a VolumeStep(x) followed by
\* adjustVolume(-x) gives v again, for x = +1 and x = -1.
C6_VolumeRoundTrip ==
  [][\A x \in {-1, 1} :
       (StepsBy(x) /\ m.g_volume > VOLUME_MIN /\ m.g_volume < VOLUME_MAX) =>
          adjustVolume(m', -x).g_volume = m.g_volume]_vars

\* C6: a step up from 20 has reached 21, from where the step down returns.
C6_Witness ==
  /\ pc = "sw"
  /\ Steps(m.io) = <<1>>
  /\ m.g_volume = VOLUME_MAX
  /\ Args(m.io, "setVolume") = << <<VOLUME_MAX>> >>

\* what a volume adjustment may change: the volume, what the engine was
\* told, the flash overlay, the LED and the log
SameButVolume(s, t) ==
  t = [s EXCEPT !.g_volume = t.g_volume, !.engineVol = t.engineVol,
                !.g_showingVolFlash = t.g_showingVolFlash,
                !.g_volFlashStart = t.g_volFlashStart,
                !.led = t.led, !.io = t.io]

\* C7: handleEncoder, and with it every VolumeStep, leaves the player state,
\* the track index and the sleep flag alone, and a volume that changed has
\* triggered the flash; adjustVolume changes nothing but the volume and the
\* flash in any of the four player states.
C7_VolumeStepFrame ==
  /\ [][pc = "enc" =>
          /\ m'.g_state = m.g_state
          /\ m'.g_track = m.g_track
          /\ m'.g_sleeping = m.g_sleeping
          /\ m'.g_volume # m.g_volume =>
               /\ m'.g_showingVolFlash
               /\ m'.g_volFlashStart = m'.now
               /\ m'.led = LED_FLASH]_vars
  /\ [](\A st \in PlayerState, d \in {-1, 1} :
          LET s == [m EXCEPT !.g_state = st]
          IN SameButVolume(s, adjustVolume(s, d)))

\* C7: a VolumeStep changed the volume while a track was playing.
C7_Witness ==
  /\ pc = "sw"
  /\ m.g_state = STATE_PLAYING
  /\ Len(Steps(m.io)) = 1
  /\ Count(m.io, "setVolume") = 1
  /\ m.g_showingVolFlash

\* C8: a press held without a break for at least 500 ms after the handler
\* first saw it and then released has had, once the handler has seen the
\* release, exactly one LongPress and no ShortPress, however the iterations
\* of loop() were spaced.
C8_HeldLongAsStated ==
  (btn.relLong /\ ~m.g_swPressed) => (btn.longs = 1 /\ btn.shorts = 0)

\* the handler is about to see the release of a press, less than
\* DEBOUNCE_BUTTON_MS after it stored the start of the press
EarlyRelease ==
  /\ pc = "sw"
  /\ btn.sw = HIGH
  /\ m.g_swPressed
  /\ Elapsed(m.now, m.g_swPressStart) < DEBOUNCE_BUTTON_MS

\* C9: a press whose release the handler sees less than 50 ms after it first
\* saw the press has no ShortPress and no LongPress; the handler that sees
\* the release only reads the pin and clears the press record.
C9_ShortBounceIgnored ==
  [][EarlyRelease =>
       /\ m' = [m EXCEPT !.g_swPressed = FALSE, !.g_swHandled = FALSE,
                         !.io = << <<"digitalRead", <<PIN_ENC_SW, HIGH>>>> >>]
       /\ btn'.longs = 0
       /\ btn'.shorts = 0]_vars

\* C9: a press was released 49 ms after it was first seen, while a track was
\* playing, and nothing was dispatched.
C9_Witness ==
  /\ pc = "led"
  /\ btn.ended
  /\ Elapsed(m.now, m.g_swPressStart) = DEBOUNCE_BUTTON_MS - 1
  /\ m.g_state = STATE_PLAYING
  /\ btn.shorts = 0
  /\ btn.longs = 0

\* the sample of CLK that the step of handleEncoder about to be taken reads
ClkRead == Args(m'.io, "digitalRead")[1]

\* C10: handleEncoder dispatches exactly one VolumeStep when it samples CLK
\* low after a high sample, 5 ms or more after the edge it last accepted, and
\* notes the time; otherwise it dispatches none and keeps the time of the
\* last accepted edge.  No other handler dispatches a VolumeStep.
C10_OneStepPerAcceptedEdge ==
  [][ /\ pc = "enc" =>
           LET accepted == /\ ClkRead = <<PIN_ENC_CLK, LOW>>
                           /\ m.g_encLastCLK = HIGH
                           /\ Elapsed(m.now, m.g_encLastTime) >= DEBOUNCE_ENCODER_MS
           IN /\ Len(Steps(m'.io)) = IF accepted THEN 1 ELSE 0
              /\ m'.g_encLastTime = IF accepted THEN m.now ELSE m.g_encLastTime
      /\ pc # "enc" => Len(Steps(m'.io)) = 0 ]_vars

\* C10: inside the window after an accepted edge, CLK was sampled high again
\* (a bounce); the sample was dropped and the baseline stayed low.
C10_Witness ==
  /\ pc = "sw"
  /\ Args(m.io, "digitalRead") = << <<PIN_ENC_CLK, HIGH>> >>
  /\ m.g_encLastCLK = LOW
  /\ Elapsed(m.now, m.g_encLastTime) \in 1 .. (DEBOUNCE_ENCODER_MS - 1)
  /\ m.g_volume # VOLUME_DEFAULT

----------------------------------------------------------------------------
(* Direction of rotation.                                                  *)

\* C11: a step that handleEncoder dispatches follows a low sample of CLK and
\* one sample of DT, and is +1 when DT was high and -1 when DT was low, the
\* volume moving that way within its limits; a high sample of CLK dispatches
\* no step and reads DT not at all.
C11_EncoderDirection ==
  [][pc = "enc" =>
       LET reads == Args(m'.io, "digitalRead")
           steps == Steps(m'.io)
       IN /\ steps # <<>> =>
               /\ Len(reads) = 2
               /\ reads[1] = <<PIN_ENC_CLK, LOW>>
               /\ reads[2][1] = PIN_ENC_DT
               /\ steps = <<IF reads[2][2] = HIGH THEN 1 ELSE -1>>
               /\ m'.g_volume = Clamped(m.g_volume + steps[1])
          /\ reads[1] = <<PIN_ENC_CLK, HIGH>> =>
               /\ steps = <<>>
               /\ Len(reads) = 1
               /\ m'.g_volume = m.g_volume]_vars

\* C11: an accepted falling edge with DT high has raised the volume by one.
C11_Witness ==
  /\ pc = "sw"
  /\ Args(m.io, "digitalRead") = << <<PIN_ENC_CLK, LOW>>, <<PIN_ENC_DT, HIGH>> >>
  /\ Steps(m.io) = <<1>>
  /\ m.engineVol = VOLUME_DEFAULT + 1

----------------------------------------------------------------------------
(* The overlays of the LED.                                                *)

\* updateLED is about to find the flash expired, a flash that was triggered
\* while the track colour was being shown
FlashEndsOverColor ==
  /\ pc = "led"
  /\ m.g_state = STATE_PLAYING
  /\ m.g_showingVolFlash
  /\ Elapsed(m.now, m.g_volFlashStart) >= VOLUME_FLASH_MS
  /\ m.g_showingTrackColor
  /\ Elapsed(m.g_volFlashStart, m.g_trackColorStart) < TRACK_COLOR_MS

\* C12: a flash triggered over the track colour keeps the LED at the flash
\* colour while it lasts; the updateLED that finds it expired leaves the LED
\* at the colour of the track if the 1.5 s of the track colour are not over,
\* and otherwise at a colour of the rainbow of the Playing state.
C12_OverlayPriority ==
  [][/\ (pc = "led" /\ m.g_showingVolFlash /\ m.g_showingTrackColor
           /\ Elapsed(m.now, m.g_volFlashStart) < VOLUME_FLASH_MS
           /\ m.led = LED_FLASH)
        => m'.led = LED_FLASH
     /\ FlashEndsOverColor =>
          IF Elapsed(m.now, m.g_trackColorStart) < TRACK_COLOR_MS
          THEN m'.led = TRACK_COLORS[m.g_track + 1]
          ELSE \E b \in BreathLevels : m'.led = hsvToRgb(m'.g_rainbowHue, 255, b)]_vars

----------------------------------------------------------------------------
(* Wake, pause, skip.                                                      *)

\* the step about to be taken is a poll of the sleeping sketch that wakes it
Wakes == pc = "loop" /\ m.g_sleeping /\ ~m'.g_sleeping

\* C13: a wake in state Paused sends one pauseResume and nothing else to the
\* engine, probes no file and leaves Playing on the same track; a wake in
\* state Idle calls playTrack on the current index with no stop before it,
\* probes that index first and, when its file is on the card, connects to
\* that index and keeps it.
C13_WakeResumesOrPlays ==
  [][Wakes =>
       /\ m.g_state = STATE_PAUSED =>
            /\ m'.g_state = STATE_PLAYING
            /\ m'.g_track = m.g_track
            /\ Count(m'.io, "pauseResume") = 1
            /\ Count(m'.io, "connecttoFS") = 0
            /\ Count(m'.io, "stopSong") = 0
            /\ Count(m'.io, "playTrack") = 0
            /\ Count(m'.io, "fileExists") = 0
       /\ m.g_state = STATE_IDLE =>
            /\ Args(m'.io, "playTrack") = << <<m.g_track>> >>
            /\ Count(m'.io, "pauseResume") = 0
            /\ Count(m'.io, "stopSong") = 0
            /\ Args(m'.io, "fileExists")[1] = <<m.g_track>>
            /\ Count(m'.io, "connecttoFS") <= 1
            /\ m.g_track \in files =>
                 /\ Count(m'.io, "connecttoFS") = 1
                 /\ Args(m'.io, "connecttoFS")[1][1] = m.g_track
                 /\ m'.g_track = m.g_track
                 /\ m'.g_state \in {STATE_PLAYING, STATE_ERROR}
                 /\ m'.g_state = STATE_PLAYING <=> m'.connected = "ok"]_vars

\* C13: the sketch was woken from a pause of track 1 and resumed it, the
\* engine neither stopped nor connected anew.
C13_Witness ==
  /\ pc = "loop"
  /\ Count(m.io, "wakeUp") = 1
  /\ Args(m.io, "pauseResume") = << <<>> >>
  /\ Count(m.io, "connecttoFS") = 0
  /\ m.g_state = STATE_PLAYING
  /\ m.g_track = 1
  /\ m.toggles = 0

\* C13: the sketch was woken from Idle and plays track 0, which it probed
\* and connected.
C13_WitnessIdle ==
  /\ pc = "loop"
  /\ Count(m.io, "wakeUp") = 1
  /\ Args(m.io, "playTrack") = << <<0>> >>
  /\ Args(m.io, "connecttoFS") = << <<0, 1>> >>
  /\ m.g_state = STATE_PLAYING

\* the step of handleEncoderSwitch about to be taken dispatches the gesture g
Dispatches(g) == pc = "sw" /\ Count(m'.io, g) = 1

\* C14: a ShortPress in state Playing sends one pauseResume and neither a
\* stop nor a connect, leaves the state Paused on the same track, and the
\* handler that dispatched it has set the sleep flag and put the LED out.
C14_ShortPressPauses ==
  [][(Dispatches("ShortPress") /\ m.g_state = STATE_PLAYING) =>
       /\ m'.g_state = STATE_PAUSED
       /\ m'.g_track = m.g_track
       /\ m'.g_sleeping
       /\ m'.led = LED_OFF
       /\ Count(m'.io, "pauseResume") = 1
       /\ m'.toggles = 1 - m.toggles
       /\ Count(m'.io, "stopSong") = 0
       /\ Count(m'.io, "connecttoFS") = 0
       /\ Count(m'.io, "playTrack") = 0
       /\ m'.connected = m.connected /\ m'.stopped = m.stopped]_vars

\* C14: a short press has paused the track that was playing and the sketch
\* sleeps, before updateLED has run.
C14_Witness ==
  /\ pc = "led"
  /\ Count(m.io, "ShortPress") = 1
  /\ Args(m.io, "pauseResume") = << <<>> >>
  /\ m.g_state = STATE_PAUSED
  /\ m.g_sleeping
  /\ m.toggles = 1

\* the place of the first entry called name in the log, 0 if there is none
Pos(log, name) ==
  IF Count(log, name) = 0 THEN 0
  ELSE CHOOSE k \in DOMAIN log :
         log[k][1] = name /\ \A j \in 1 .. (k - 1) : log[j][1] # name

\* the step about to be taken is a skip: a LongPress dispatched by
\* handleEncoderSwitch or an end of track delivered in audio.loop()
Skips ==
  \/ Dispatches("LongPress")
  \/ pc = "loop" /\ Count(m'.io, "audio_eof_mp3") = 1

\* what the engine, the card and the LED were told, in order
Commands(log) ==
  SelectSeq(log, LAMBDA e : e[1] \in {"stopSong", "pauseResume", "connecttoFS",
                                      "fileExists", "setLED", "setVolume",
                                      "playTrack"})

\* the player as it is left by a long press of the knob held since
\* LONG_PRESS_MS, and by an end of track, from the state s
AfterLongPress(s, ok) ==
  handleEncoderSwitch(
    Begin([s EXCEPT !.g_swPressed = TRUE, !.g_swHandled = FALSE,
                    !.g_swPressStart = (s.now - LONG_PRESS_MS) % ClockMod]),
    LOW, files, ok)

AfterEof(s, ok) == audioLoop(Begin(s), "eof", files, ok)

\* the fields a skip is meant to decide
Player(s) ==
  <<s.g_state, s.g_track, s.g_sleeping, s.g_volume, s.led, s.connected,
    s.stopped, s.toggles, s.g_showingTrackColor, s.g_trackColorStart,
    Commands(s.io)>>

\* C15: a LongPress or an end of track in state Playing sends one stopSong,
\* before any connect, and calls playTrack on (track + 1) mod 9; when that
\* file is on the card the one connect is to it, and when the connect
\* succeeds the state is Playing on that index.  From any state reached in
\* Playing the two events leave the same player and send the same commands.
C15_SkipToNext ==
  /\ [][(Skips /\ m.g_state = STATE_PLAYING) =>
          LET next == (m.g_track + 1) % NUM_TRACKS
          IN /\ Count(m'.io, "stopSong") = 1
             /\ Count(m'.io, "connecttoFS") > 0 =>
                  Pos(m'.io, "stopSong") < Pos(m'.io, "connecttoFS")
             /\ Args(m'.io, "playTrack") = << <<next>> >>
             /\ (m.g_track = NUM_TRACKS - 1) => next = 0
             /\ next \in files =>
                  /\ Count(m'.io, "connecttoFS") = 1
                  /\ Args(m'.io, "connecttoFS")[1][1] = next
                  /\ m'.g_track = next
                  /\ Args(m'.io, "connecttoFS")[1][2] = 1 =>
                       (m'.g_state = STATE_PLAYING /\ ~m'.stopped)]_vars
  /\ [](m.g_state = STATE_PLAYING =>
          \A ok \in BOOLEAN : Player(AfterLongPress(m, ok)) = Player(AfterEof(m, ok)))

\* C15: a long press while track 8 played has stopped it and started
\* track 0.
C15_Witness ==
  /\ pc = "led"
  /\ Count(m.io, "LongPress") = 1
  /\ Pos(m.io, "stopSong") < Pos(m.io, "connecttoFS")
  /\ Args(m.io, "playTrack") = << <<0>> >>
  /\ Args(m.io, "connecttoFS") = << <<0, 1>> >>
  /\ m.g_state = STATE_PLAYING
  /\ m.g_track = 0
  /\ m.toggles = 0

\* C15: an end of track while track 8 played has started track 0.
C15_WitnessEof ==
  /\ pc = "enc"
  /\ Count(m.io, "audio_eof_mp3") = 1
  /\ Args(m.io, "connecttoFS") = << <<0, 1>> >>
  /\ m.g_state = STATE_PLAYING
  /\ files = Tracks

----------------------------------------------------------------------------
(* Errors.                                                                 *)

\* the step about to be taken is an audio.loop() in which the engine reports
\* an error
Fails == pc = "loop" /\ Count(m'.io, "audio_error") = 1

\* what the sketch told the audio engine
EngineCommands(log) ==
  SelectSeq(log, LAMBDA e : e[1] \in {"stopSong", "pauseResume", "connecttoFS",
                                      "setVolume"})

\* C16: an error notification in state Playing leaves the state Error within
\* the same audio.loop(), sends the engine nothing, keeps track, volume and
\* sleep flag, and the iteration goes on to handleEncoder; the sketch never
\* sleeps in state Error, so every later iteration runs the input handlers.
C16_ErrorNotification ==
  /\ [][(Fails /\ m.g_state = STATE_PLAYING) =>
          /\ m'.g_state = STATE_ERROR
          /\ EngineCommands(m'.io) = <<>>
          /\ Count(m'.io, "playTrack") = 0
          /\ m'.g_track = m.g_track
          /\ m'.g_volume = m.g_volume
          /\ m'.g_sleeping = m.g_sleeping
          /\ <<m'.connected, m'.stopped, m'.toggles, m'.engineVol>>
               = <<m.connected, m.stopped, m.toggles, m.engineVol>>
          /\ pc' = "enc"]_vars
  /\ [](m.g_state = STATE_ERROR => ~m.g_sleeping)

\* C16: after an error notification during playback (the stream is still
\* the one connected) the knob was turned and the volume followed.
C16_Witness ==
  /\ pc = "sw"
  /\ m.g_state = STATE_ERROR
  /\ m.connected = "ok"
  /\ ~m.stopped
  /\ Steps(m.io) = <<1>>
  /\ m.engineVol = m.g_volume
  /\ m.g_volume # VOLUME_DEFAULT

\* what C17 says of a ShortPress dispatched in the state s (Error or Idle)
\* on the card F, r being the state the handler left
RetryHolds(s, r, F) ==
  LET con == Args(r.io, "connecttoFS")
  IN /\ Args(r.io, "playTrack") = << <<s.g_track>> >>
     /\ Count(r.io, "stopSong") = 0
     /\ Count(r.io, "pauseResume") = 0
     /\ Len(con) = IF s.g_sdReady /\ F # {} THEN 1 ELSE 0
     /\ (s.g_sdReady /\ s.g_track \in F) => r.g_track = s.g_track
     /\ Len(con) = 1 => (con[1][1] = FirstFrom(s.g_track, F) /\ r.g_track = con[1][1])
     /\ r.g_state = IF Len(con) = 1 /\ con[1][2] = 1
                    THEN STATE_PLAYING ELSE STATE_ERROR
     /\ ~r.g_sleeping

\* C17: a ShortPress in state Error calls playTrack on the current index,
\* with no stop: the index stays when its file is on the card, the state is
\* Playing when a file was found and the connect succeeded and Error
\* otherwise.  togglePlayPause does the same in state Idle.
C17_ShortPressRetries ==
  /\ [][(Dispatches("ShortPress") /\ m.g_state = STATE_ERROR) =>
          RetryHolds(m, m', files)]_vars
  /\ [](\A st \in {STATE_ERROR, STATE_IDLE}, ok \in BOOLEAN :
          LET s == Begin([m EXCEPT !.g_state = st, !.g_sleeping = FALSE])
          IN RetryHolds(s, togglePlayPause(s, files, ok), files))

\* C17: a short press in state Error has started track 1 again, the index
\* it stood at.
C17_Witness ==
  /\ pc = "led"
  /\ Count(m.io, "ShortPress") = 1
  /\ Args(m.io, "playTrack") = << <<1>> >>
  /\ Args(m.io, "connecttoFS") = << <<1, 1>> >>
  /\ m.g_state = STATE_PLAYING
  /\ m.g_track = 1

\* C17: a short press in state Error has tried the current track and the
\* connect failed again.
C17_WitnessFails ==
  /\ pc = "led"
  /\ Count(m.io, "ShortPress") = 1
  /\ Count(m.io, "connecttoFS") = 1
  /\ m.connected = "fail"
  /\ m.g_state = STATE_ERROR

\* the step about to be taken leaves state Error
LeavesError == m.g_state = STATE_ERROR /\ m'.g_state # STATE_ERROR

\* C18: the only step that takes the player out of state Error is a
\* handleEncoderSwitch that dispatches a ShortPress.
C18_RetryIsSoleRecovery ==
  [][LeavesError => Dispatches("ShortPress")]_vars

\* C18, amended: the only steps that take the player out of state Error are
\* a ShortPress (retry), and a LongPress or an end of track (skip to the
\* next track), and they leave it Playing; a VolumeStep, an error
\* notification and updateLED leave the state Error.
C18_RecoveryBySelection ==
  [][LeavesError =>
       /\ Dispatches("ShortPress") \/ Skips
       /\ Count(m'.io, "playTrack") = 1
       /\ m'.g_state = STATE_PLAYING
       /\ m'.connected = "ok"]_vars

\* C18: in state Error, on a mounted card with tracks, handleEncoderSwitch
\* is about to see the knob held for LONG_PRESS_MS, and the LongPress it
\* dispatches leaves Playing on the next track.
C18_Witness ==
  /\ pc = "sw"
  /\ m.g_state = STATE_ERROR
  /\ btn.sw = LOW
  /\ m.g_swPressed /\ ~m.g_swHandled
  /\ Elapsed(m.now, m.g_swPressStart) >= LONG_PRESS_MS
  /\ LET r == handleEncoderSwitch(Begin(m), btn.sw, files, TRUE)
     IN /\ Count(r.io, "LongPress") = 1
        /\ r.g_state = STATE_PLAYING
        /\ r.g_track = (m.g_track + 1) % NUM_TRACKS

\* C18: in state Error an end of track is about to be delivered and leaves
\* Playing.
C18_WitnessEof ==
  /\ pc = "loop"
  /\ ~m.g_sleeping
  /\ m.g_state = STATE_ERROR
  /\ audioLoop(Begin(m), "eof", files, TRUE).g_state = STATE_PLAYING

\* C19: when the card did not mount, the state is Error and the sketch awake
\* from the end of setup() on, whatever is pressed, turned or notified; no
\* file is probed and no connect is sent; every ShortPress calls playTrack
\* on the current index, and it returns at once.
C19_NoCard ==
  /\ [](~m.g_sdReady =>
          /\ m.g_state = STATE_ERROR
          /\ ~m.g_sleeping
          /\ m.connected = "none"
          /\ Count(m.io, "connecttoFS") = 0
          /\ Count(m.io, "fileExists") = 0)
  /\ [][~m.g_sdReady =>
          /\ ~m'.g_sdReady
          /\ Dispatches("ShortPress") =>
               /\ Args(m'.io, "playTrack") = << <<m.g_track>> >>
               /\ Count(m'.io, "stopSong") = 0
          /\ pc = "enc" => pc' = "sw"
          /\ pc = "sw" => pc' = "led"]_vars

\* C19: without a card, a short press was dispatched after the knob had
\* been turned, the retry returned and the state is still Error.
C19_Witness ==
  /\ pc = "led"
  /\ ~m.g_sdReady
  /\ Count(m.io, "ShortPress") = 1
  /\ Count(m.io, "playTrack") = 1
  /\ m.g_state = STATE_ERROR
  /\ m.g_volume # VOLUME_DEFAULT
  /\ files = Tracks

\* a handler's log holds a connect that failed
ConnectFailed(log) ==
  \E k \in DOMAIN Args(log, "connecttoFS") : Args(log, "connecttoFS")[k][2] = 0

\* C20: a handler in which connecttoFS fails (a wake from Idle, a retry, a
\* skip) leaves the state Error with the sleep flag clear and the LED red;
\* from that state every ShortPress, LongPress and end of track calls
\* playTrack again and connects anew.
C20_ConnectFailure ==
  [][/\ ConnectFailed(m'.io) =>
          /\ m'.g_state = STATE_ERROR
          /\ ~m'.g_sleeping
          /\ m'.led = LED_ERROR
          /\ m'.connected = "fail"
     /\ (m.g_state = STATE_ERROR /\ m.connected = "fail"
           /\ (Dispatches("ShortPress") \/ Skips)) =>
          /\ Count(m'.io, "playTrack") = 1
          /\ Count(m'.io, "connecttoFS") = 1
          /\ m'.g_state = IF ConnectFailed(m'.io) THEN STATE_ERROR ELSE STATE_PLAYING]_vars

\* C20: the connect of a skip by long press failed; the state is Error and
\* the sketch awake.
C20_Witness ==
  /\ pc = "led"
  /\ Count(m.io, "LongPress") = 1
  /\ ConnectFailed(m.io)
  /\ m.g_state = STATE_ERROR
  /\ ~m.g_sleeping
  /\ m.connected = "fail"

\* C20: after a failed connect a short press is about to be dispatched, and
\* its retry plays.
C20_WitnessRetry ==
  /\ pc = "sw"
  /\ m.g_state = STATE_ERROR
  /\ m.connected = "fail"
  /\ LET r == handleEncoderSwitch(Begin(m), btn.sw, files, TRUE)
     IN Count(r.io, "ShortPress") = 1 /\ r.g_state = STATE_PLAYING

----------------------------------------------------------------------------
(* Sleep.                                                                  *)

\* C21: whenever the sleep flag is set the player state is Idle or Paused.
C21_SleepOnlyIdleOrPaused ==
  m.g_sleeping => m.g_state \in {STATE_IDLE, STATE_PAUSED}

\* C21: the sketch sleeps in state Paused on track 1, after a skip.
C21_Witness ==
  /\ pc = "loop"
  /\ m.g_sleeping
  /\ m.g_state = STATE_PAUSED
  /\ m.g_track = 1
  /\ m.toggles = 1

\* C22: after setup() the sketch sleeps exactly when the card mounted, and
\* then in state Idle on track 0 at volume 15 with nothing connected; later
\* the sleep flag is set only by a handleEncoderSwitch that dispatches a
\* ShortPress in state Playing and leaves Paused.
C22_SleepEntries ==
  /\ m.g_sleeping = m.g_sdReady
  /\ m.g_sleeping =>
       /\ m.g_state = STATE_IDLE
       /\ m.g_track = 0
       /\ m.g_volume = VOLUME_DEFAULT
       /\ m.connected = "none"
  /\ [][(~m.g_sleeping /\ m'.g_sleeping) =>
          /\ Dispatches("ShortPress")
          /\ m.g_state = STATE_PLAYING
          /\ m'.g_state = STATE_PAUSED]_vars

\* C22: a short press has paused track 0 and set the sleep flag, the sketch
\* having been woken from its first sleep before.
C22_Witness ==
  /\ pc = "led"
  /\ m.g_sleeping
  /\ Count(m.io, "ShortPress") = 1
  /\ m.g_state = STATE_PAUSED
  /\ m.connected = "ok"
  /\ m.g_track = 0

\* C23: while the sleep flag is set only the poll of loop() runs, so the
\* sketch is at the top of loop(), and a step that leaves the flag set calls
\* nothing but digitalRead on SW and CLK: no setLED, no updateLED, no
\* audio.loop(), no VolumeStep, ShortPress or LongPress.
C23_AsleepOnlyPolls ==
  [][m.g_sleeping =>
       /\ pc = "loop"
       /\ m'.g_sleeping =>
            \A k \in DOMAIN m'.io :
              /\ m'.io[k][1] = "digitalRead"
              /\ m'.io[k][2][1] \in {PIN_ENC_SW, PIN_ENC_CLK}
       /\ m'.g_sleeping => m'.led = m.led]_vars

\* C24: at the top of loop(), whenever the sleep flag is set the three LED
\* channels are at duty 0.
C24_AsleepLedOff ==
  (pc = "loop" /\ m.g_sleeping) => m.led = LED_OFF

\* the step about to be taken is a poll of the sleeping sketch (or leaves
\* the log of one in place)
Polls ==
  /\ pc = "loop"
  /\ m.g_sleeping
  /\ m'.io # <<>>
  /\ m'.io[1][1] = "digitalRead"

\* C25: a poll of the sleeping sketch that reads SW low, or SW high and CLK
\* other than g_encLastCLK, clears the sleep flag within the poll, leaving
\* Playing after one pauseResume when the state was Paused and calling
\* playTrack on the current index when it was Idle; a poll that reads SW
\* high and CLK as stored leaves the flag set and calls nothing else.
C25_WakeOnEdge ==
  [][Polls =>
       LET reads   == Args(m'.io, "digitalRead")
           pressed == reads[1] = <<PIN_ENC_SW, LOW>>
           turned  == /\ reads[1] = <<PIN_ENC_SW, HIGH>>
                      /\ reads[2][1] = PIN_ENC_CLK
                      /\ reads[2][2] # m.g_encLastCLK
       IN /\ (pressed \/ turned) =>
               /\ ~m'.g_sleeping
               /\ Count(m'.io, "wakeUp") = 1
               /\ m.g_state = STATE_PAUSED =>
                    (m'.g_state = STATE_PLAYING /\ Count(m'.io, "pauseResume") = 1)
               /\ m.g_state = STATE_IDLE =>
                    Args(m'.io, "playTrack") = << <<m.g_track>> >>
          /\ ~(pressed \/ turned) =>
               /\ m'.g_sleeping
               /\ m'.g_state = m.g_state
               /\ Len(m'.io) = 2
               /\ Len(reads) = 2]_vars

\* C25: a poll found CLK turned while the knob was up, and woke the sketch
\* from a pause.
C25_Witness ==
  /\ pc = "loop"
  /\ ~m.g_sleeping
  /\ Count(m.io, "wakeUp") = 1
  /\ Args(m.io, "digitalRead")[1] = <<PIN_ENC_SW, HIGH>>
  /\ Len(Args(m.io, "digitalRead")) = 3
  /\ Count(m.io, "pauseResume") = 1
  /\ m.g_state = STATE_PLAYING

\* C25: a poll found neither, and the sketch sleeps on in state Paused.
C25_WitnessQuiet ==
  /\ pc = "loop"
  /\ m.g_sleeping
  /\ Len(m.io) = 2
  /\ Args(m.io, "digitalRead")[1] = <<PIN_ENC_SW, HIGH>>
  /\ m.g_state = STATE_PAUSED

----------------------------------------------------------------------------
(* The order of loop().                                                    *)

Gestures == {"VolumeStep", "ShortPress", "LongPress"}

EngineEvents == {"audio_eof_mp3", "audio_error"}

\* the names of the entries of a log
NamesIn(log) == {log[k][1] : k \in DOMAIN log}

\* C26: awake, loop() runs audio.loop(), then handleEncoder, then
\* handleEncoderSwitch, then updateLED, and is back at its top.  Engine
\* notifications arrive only inside audio.loop(); a VolumeStep is dispatched
\* only by handleEncoder and has set the volume when it returns; ShortPress
\* and LongPress are dispatched only by handleEncoderSwitch, whose pause,
\* retry or skip is complete when it returns; updateLED dispatches nothing,
\* and runs also when that iteration has put the sketch to sleep.
C26_LoopOrder ==
  [][/\ (pc = "loop" /\ ~m.g_sleeping /\ m'.now = m.now /\ btn' = btn) =>
          /\ pc' = "enc"
          /\ m'.io # <<>>
          /\ m'.io[1] = <<"audio.loop", <<>>>>
          /\ NamesIn(m'.io) \cap Gestures = {}
          /\ Count(m'.io, "audio_eof_mp3") = 1 => Count(m'.io, "playTrack") = 1
          /\ Count(m'.io, "audio_error") = 1 => m'.g_state = STATE_ERROR
     /\ pc = "enc" =>
          /\ pc' = "sw"
          /\ m'.io[1][1] = "digitalRead" /\ m'.io[1][2][1] = PIN_ENC_CLK
          /\ NamesIn(m'.io) \cap (EngineEvents \cup {"ShortPress", "LongPress", "audio.loop"}) = {}
          /\ Len(Steps(m'.io)) <= 1
          /\ Len(Steps(m'.io)) = 1 => m'.g_volume = Clamped(m.g_volume + Steps(m'.io)[1])
     /\ pc = "sw" =>
          /\ pc' = "led"
          /\ m'.io[1][1] = "digitalRead" /\ m'.io[1][2][1] = PIN_ENC_SW
          /\ NamesIn(m'.io) \cap (EngineEvents \cup {"VolumeStep", "audio.loop"}) = {}
          /\ Count(m'.io, "ShortPress") + Count(m'.io, "LongPress") <= 1
          /\ Count(m'.io, "LongPress") = 1 =>
               (Count(m'.io, "stopSong") = 1 /\ Count(m'.io, "playTrack") = 1)
          /\ Count(m'.io, "ShortPress") = 1 =>
               Count(m'.io, "pauseResume") + Count(m'.io, "playTrack") = 1
     /\ pc = "led" =>
          /\ pc' = "loop"
          /\ NamesIn(m'.io) \subseteq {"setLED"}
          /\ \E b \in BreathLevels, br \in ErrorLevels : m' = updateLED(Begin(m), b, br)]_vars

\* C26: an iteration of loop() is complete in state Error, after the knob
\* had been turned, and its updateLED has written the red of that state.
C26_Witness ==
  /\ pc = "loop"
  /\ ~m.g_sleeping
  /\ m.g_state = STATE_ERROR
  /\ m.g_volume # VOLUME_DEFAULT
  /\ ~m.g_showingVolFlash
  /\ Count(m.io, "setLED") = 1
  /\ m.led[1] >= ERR_MIN /\ m.led[2] = 0 /\ m.led[3] = 0

----------------------------------------------------------------------------
(* The timing of the overlays.                                             *)

\* the step about to be taken runs a handler: it is more than time passing
Handled == m' # [m EXCEPT !.now = m'.now]

\* the step about to be taken changes the volume, which triggers the flash
FlashTriggered == Handled /\ Count(m'.io, "setVolume") = 1

\* the step about to be taken selects a track on a mounted card, which
\* triggers the track colour
ColorTriggered == Handled /\ Count(m'.io, "fileExists") > 0

\* the flash is on at the time of s
FlashOn(s) ==
  s.g_showingVolFlash /\ Elapsed(s.now, s.g_volFlashStart) < VOLUME_FLASH_MS

\* C27: every trigger of the flash, while one is running or not, sets its
\* start to the time of the trigger, and nothing else moves the start;
\* updateLED ends the flash exactly when 200 ms have passed since that
\* start.  Likewise every track selection sets the start of the track
\* colour to its own time, and updateLED, the flash over, ends the track
\* colour exactly when 1500 ms have passed since.
C27_OverlayRestarts ==
  [][/\ FlashTriggered =>
          (m'.g_showingVolFlash /\ m'.g_volFlashStart = m.now /\ pc = "enc")
     /\ ~FlashTriggered => m'.g_volFlashStart = m.g_volFlashStart
     /\ ColorTriggered =>
          /\ m'.g_showingTrackColor
          /\ m'.g_trackColorStart =
               IF Wakes THEN (m.now + WAKE_DELAY_MS) % ClockMod ELSE m.now
     /\ ~ColorTriggered => m'.g_trackColorStart = m.g_trackColorStart
     /\ (pc = "led" /\ m.g_showingVolFlash) =>
          (m'.g_showingVolFlash <=> FlashOn(m))
     /\ (pc = "led" /\ m.g_showingTrackColor /\ ~FlashOn(m)) =>
          (m'.g_showingTrackColor
             <=> Elapsed(m.now, m.g_trackColorStart) < TRACK_COLOR_MS)
     /\ pc # "led" =>
          /\ m.g_showingVolFlash => m'.g_showingVolFlash
          /\ m.g_showingTrackColor => m'.g_showingTrackColor]_vars

\* C27: the second volume step since the wake, 100 ms after the first, has
\* set the start of the flash, still running, to its own time.
C27_Witness ==
  /\ pc = "sw"
  /\ Count(m.io, "setVolume") = 1
  /\ m.g_volume = VOLUME_DEFAULT + 2
  /\ Elapsed(m.now, t0) = SLEEP_POLL_MS + WAKE_DELAY_MS + VOLUME_FLASH_MS \div 2
  /\ m.g_showingVolFlash
  /\ m.g_volFlashStart = m.now

\* C27: the flash triggered twice, 100 ms apart, is still on 200 ms after
\* the first trigger.
C27_WitnessStillOn ==
  /\ pc = "loop"
  /\ m.g_volume = VOLUME_DEFAULT + 2
  /\ Elapsed(m.now, t0) = SLEEP_POLL_MS + WAKE_DELAY_MS + VOLUME_FLASH_MS
  /\ FlashOn(m)
  /\ m.io = <<>>

\* C27: a track ended 100 ms after the wake and the colour of the next
\* track, triggered then, is still shown 1500 ms after the wake.
C27_WitnessColor ==
  /\ pc = "loop"
  /\ m.g_showingTrackColor
  /\ m.g_track = 1
  /\ m.g_volume = VOLUME_DEFAULT
  /\ Elapsed(m.now, m.g_trackColorStart) = TRACK_COLOR_MS - VOLUME_FLASH_MS \div 2
  /\ Elapsed(m.now, t0) = SLEEP_POLL_MS + WAKE_DELAY_MS + TRACK_COLOR_MS
  /\ m.io = <<>>

\* C28: at the top of every iteration of loop(), awake, with the flash
\* triggered less than 200 ms ago, the LED shows the colour of the flash.
C28_FlashOnTop ==
  (pc = "loop" /\ ~m.g_sleeping /\ FlashOn(m)) => m.led = LED_FLASH

\* the track colour is on at the time of s
ColorOn(s) ==
  s.g_showingTrackColor
    /\ Elapsed(s.now, s.g_trackColorStart) < TRACK_COLOR_MS

\* what updateLED leaves of s when no overlay is on
Steady(s, r) ==
  CASE s.g_state \in {STATE_IDLE, STATE_PAUSED} ->
            r.led = LED_STANDBY /\ Count(r.io, "setLED") = 1
       [] s.g_state = STATE_ERROR ->
            /\ Count(r.io, "setLED") = 1
            /\ r.led[1] \in ERR_MIN .. (ERR_MIN + 2 * ERR_AMPL)
            /\ r.led[2] = 0
            /\ r.led[3] = 0
       [] OTHER ->
            IF Elapsed(s.now, s.g_lastAnimTime) >= RAINBOW_INTERVAL_MS
            THEN /\ r.g_rainbowHue = (s.g_rainbowHue + 1) % HUE_MOD
                 /\ r.g_lastAnimTime = s.now
                 /\ Count(r.io, "setLED") = 1
                 /\ \E b \in BREATH_MIN .. BREATH_MAX :
                      r.led = hsvToRgb(r.g_rainbowHue, 255, b)
            ELSE /\ r.g_rainbowHue = s.g_rainbowHue
                 /\ r.g_lastAnimTime = s.g_lastAnimTime
                 /\ r.led = s.led
                 /\ Count(r.io, "setLED") = 0

C29_WitnessError ==
  /\ pc = "loop"
  /\ m.g_state = STATE_ERROR
  /\ ~m.g_showingVolFlash
  /\ Count(m.io, "setLED") = 1
  /\ m.led = <<ERR_MIN, 0, 0>>

\* C29: paused, the track colour over, the render tick has written
\* (0,0,30).
C29_WitnessPaused ==
  /\ pc = "loop"
  /\ m.g_state = STATE_PAUSED
  /\ Count(m.io, "setLED") = 1
  /\ m.led = LED_STANDBY

\* the track indices the log hands to the card and to the engine
Indexed(log) ==
  {log[k][2][1] : k \in {j \in DOMAIN log :
                           log[j][1] \in {"fileExists", "connecttoFS"}}}

\* C30: g_track is one of 0 .. NUM_TRACKS - 1 in every state, and so is
\* every index the last handler probed on the card or handed to the engine,
\* which are the values g_track took during its search.
C30_TrackInRange ==
  /\ m.g_track \in Tracks
  /\ Indexed(m.io) \subseteq Tracks

\* C30: a search that started at the last track of an empty card has gone
\* round all tracks, failed, and left g_track at the last track.
C30_Witness ==
  /\ m.g_sdReady
  /\ files = {}
  /\ m.g_state = STATE_ERROR
  /\ Count(m.io, "fileExists") = NUM_TRACKS + 2
  /\ Count(m.io, "connecttoFS") = 0
  /\ Indexed(m.io) = Tracks
  /\ m.g_track = NUM_TRACKS - 1

\* C30: a search that started at the last track has wrapped and found
\* track 0.
C30_WitnessWrap ==
  /\ m.g_state = STATE_PLAYING
  /\ Args(m.io, "fileExists") = <<<<NUM_TRACKS - 1>>, <<NUM_TRACKS - 1>>, <<0>>>>
  /\ m.g_track = 0

----------------------------------------------------------------------------
(* The press and the turn that wake the sketch.                            *)

\* the step about to be taken dispatches a gesture of the button
PressDispatched ==
  Handled /\ (Count(m'.io, "ShortPress") > 0 \/ Count(m'.io, "LongPress") > 0)

\* C31: in SpecWake the one press of a run is the press that wakes the
\* sketch, and no step dispatches a ShortPress or a LongPress for it,
\* however long it is held after the wake and whenever it is released.
C31_WakePressUnclassified == [][~PressDispatched]_vars

\* the log of a handler whose search found no track
TotalFailure(log) ==
  /\ Count(log, "playTrack") = 1
  /\ Count(log, "fileExists") > 0
  /\ Count(log, "connecttoFS") = 0

\* how often the search behind the log advanced g_track: once before each
\* probe but the two of the track asked for
Advances(log) ==
  IF Count(log, "fileExists") <= 1 THEN 0 ELSE Count(log, "fileExists") - 2

\* C32: on every card, a handler that selects a track returns with g_track
\* advanced at most NUM_TRACKS times, and when no track is found g_track has
\* been advanced exactly NUM_TRACKS times and is the index asked for.
C32_SearchBounded ==
  [][(Handled /\ Count(m'.io, "playTrack") = 1) =>
       /\ Advances(m'.io) <= NUM_TRACKS
       /\ TotalFailure(m'.io) =>
            /\ Advances(m'.io) = NUM_TRACKS
            /\ m'.g_track = Args(m'.io, "playTrack")[1][1]
            /\ m'.g_state = STATE_ERROR]_vars

\* C32: the search asked for track 3 on an empty card has tried every track
\* and left g_track at 3.
C32_Witness ==
  /\ files = {}
  /\ TotalFailure(m.io)
  /\ Args(m.io, "playTrack") = << <<3>> >>
  /\ Advances(m.io) = NUM_TRACKS
  /\ m.g_track = 3
  /\ m.g_state = STATE_ERROR

\* C33: a handler that selects a track and ends Playing leaves the track
\* colour on, its start at the time of the selection, the LED at the colour
\* of g_track, and g_track the track it connected, whatever track was asked
\* for.
C33_ColorOfTrackPlaying ==
  [][(Handled /\ Count(m'.io, "playTrack") = 1 /\ m'.g_state = STATE_PLAYING) =>
       /\ m'.g_showingTrackColor
       /\ m'.g_trackColorStart =
            IF Wakes THEN (m.now + WAKE_DELAY_MS) % ClockMod ELSE m.now
       /\ m'.led = TRACK_COLORS[m'.g_track + 1]
       /\ Args(m'.io, "connecttoFS") = << <<m'.g_track, 1>> >>]_vars

\* C33: track 1 of a card with tracks 0 and 1 has ended; track 2, asked
\* for, is missing, track 0 plays and the LED shows its colour, not the
\* colour of track 2.
C33_Witness ==
  /\ pc = "enc"
  /\ files = {0, 1}
  /\ Count(m.io, "audio_eof_mp3") = 1
  /\ Args(m.io, "playTrack") = << <<2>> >>
  /\ m.g_state = STATE_PLAYING
  /\ m.g_track = 0
  /\ m.led = TRACK_COLORS[1]
  /\ m.led # TRACK_COLORS[3]
  /\ m.g_showingTrackColor
  /\ m.g_trackColorStart = m.now
  /\ Elapsed(m.now, t0) > SLEEP_POLL_MS + WAKE_DELAY_MS

\* C34: in state Paused the sleep flag is set; no ShortPress is dispatched
\* in state Paused, so togglePlayPause never takes its branch from Paused;
\* and the state leaves Paused only in a sleeping poll that calls wakeUp,
\* which sends the resume and leaves Playing.
C34_PausedSleeps ==
  [][/\ m'.g_state = STATE_PAUSED => m'.g_sleeping
     /\ PressDispatched => m.g_state # STATE_PAUSED
     /\ (m.g_state = STATE_PAUSED /\ m'.g_state # STATE_PAUSED) =>
          /\ Wakes
          /\ Count(m'.io, "wakeUp") = 1
          /\ Count(m'.io, "ShortPress") = 0
          /\ Args(m'.io, "pauseResume") = << <<>> >>
          /\ m'.g_state = STATE_PLAYING]_vars

\* C34: the press of the knob that the paused sketch was sleeping on has
\* woken it: wakeUp, not togglePlayPause, has sent the resume.
C34_Witness ==
  /\ pc = "loop"
  /\ ~m.g_sleeping
  /\ btn.sw = LOW
  /\ Count(m.io, "wakeUp") = 1
  /\ Args(m.io, "digitalRead")[1] = <<PIN_ENC_SW, LOW>>
  /\ Count(m.io, "ShortPress") = 0
  /\ Count(m.io, "pauseResume") = 1
  /\ m.g_state = STATE_PLAYING
  /\ m.toggles = 0

\* C35: in state Idle the sleep flag is set, before and after every step; a
\* step that ends in Idle began in Idle; and a step that leaves Idle is the
\* sleeping poll that wakes the sketch.
C35_IdleOnlyBeforeFirstWake ==
  [][/\ m.g_state = STATE_IDLE => m.g_sleeping
     /\ m'.g_state = STATE_IDLE => (m'.g_sleeping /\ m.g_state = STATE_IDLE)
     /\ (m.g_state = STATE_IDLE /\ m'.g_state # STATE_IDLE) =>
          (Wakes /\ Count(m'.io, "wakeUp") = 1)]_vars

\* C35: the first wake has left Idle although its connect failed: the
\* sketch is awake in state Error.
C35_Witness ==
  /\ pc = "loop"
  /\ ~m.g_sleeping
  /\ Count(m.io, "wakeUp") = 1
  /\ Args(m.io, "playTrack") = << <<0>> >>
  /\ Args(m.io, "connecttoFS") = << <<0, 0>> >>
  /\ m.g_state = STATE_ERROR
  /\ Elapsed(m.now, t0) = WAKE_DELAY_MS + SLEEP_POLL_MS

\* C36: the pauseResume commands sent since the last connect that succeeded
\* are odd in number exactly in state Paused, before and after every step;
\* and a step sends pauseResume only from state Playing or Paused, with the
\* last connect a success and no stop after it, and sends no other command
\* to the engine.
C36_TogglesInStep ==
  [][/\ (m.toggles = 1) <=> (m.g_state = STATE_PAUSED)
     /\ (m'.toggles = 1) <=> (m'.g_state = STATE_PAUSED)
     /\ (Handled /\ Count(m'.io, "pauseResume") > 0) =>
          /\ m.g_state \in {STATE_PLAYING, STATE_PAUSED}
          /\ m.connected = "ok"
          /\ ~m.stopped
          /\ Count(m'.io, "pauseResume") = 1
          /\ Count(m'.io, "connecttoFS") = 0
          /\ Count(m'.io, "stopSong") = 0]_vars

\* C36: track 0 is paused, one pauseResume since its connect, and the
\* sketch sleeps with the knob up.
C36_Witness ==
  /\ pc = "loop"
  /\ m.g_state = STATE_PAUSED
  /\ m.g_sleeping
  /\ m.toggles = 1
  /\ m.connected = "ok"
  /\ ~m.stopped
  /\ m.g_track = 0
  /\ btn.sw = HIGH

\* C36: the pause is over: the second pauseResume since the connect has
\* been sent and the state is Playing.
C36_WitnessResumed ==
  /\ pc = "loop"
  /\ m.g_state = STATE_PLAYING
  /\ Count(m.io, "pauseResume") = 1
  /\ Count(m.io, "wakeUp") = 1
  /\ m.toggles = 0
  /\ m.connected = "ok"
  /\ m.g_track = 0

\* C37: a sleeping poll that does not wake, and the time that passes
\* between two polls, change nothing but the clock and the log: state,
\* track, volume, overlay flags and all the rest stay; and no step taken
\* with the sleep flag set, the waking poll included, changes the volume or
\* reports a VolumeStep.
C37_AsleepFrame ==
  [][m.g_sleeping =>
       /\ (pc = "loop" /\ m'.g_sleeping) =>
            m' = [m EXCEPT !.now = m'.now, !.io = m'.io]
       /\ m'.g_volume = m.g_volume
       /\ m'.engineVol = m.engineVol
       /\ Handled => (/\ Count(m'.io, "VolumeStep") = 0
                      /\ Count(m'.io, "setVolume") = 0)]_vars

\* C37: paused at a volume above the default, the sketch has polled SW and
\* CLK, found nothing and sleeps on, volume and track as they were.
C37_Witness ==
  /\ pc = "loop"
  /\ m.g_sleeping
  /\ m.g_state = STATE_PAUSED
  /\ m.g_volume = VOLUME_DEFAULT + VOLUME_STEP
  /\ m.engineVol = m.g_volume
  /\ Len(m.io) = 2
  /\ Count(m.io, "digitalRead") = 2

\* C37: a turn of the knob has woken the paused sketch and the volume is
\* what it was.
C37_WitnessTurn ==
  /\ pc = "loop"
  /\ ~m.g_sleeping
  /\ Count(m.io, "wakeUp") = 1
  /\ Count(m.io, "pauseResume") = 1
  /\ btn.sw = HIGH
  /\ m.g_volume = VOLUME_DEFAULT - VOLUME_STEP
  /\ m.engineVol = m.g_volume

----------------------------------------------------------------------------
(* The wrap of the millisecond counter.                                    *)

\* the state s with the counter, and every time the sketch has stored, k
\* milliseconds further on
Shift(s, k) ==
  [s EXCEPT !.now = (@ + k) % ClockMod,
            !.g_encLastTime = (@ + k) % ClockMod,
            !.g_swPressStart = (@ + k) % ClockMod,
            !.g_volFlashStart = (@ + k) % ClockMod,
            !.g_trackColorStart = (@ + k) % ClockMod,
            !.g_lastAnimTime = (@ + k) % ClockMod]

\* the shifts that put the wrap of the counter at the time of s, and half
\* a long press before it: every time stored earlier lies before the wrap
WrapShifts(s) ==
  {(ClockMod - s.now) % ClockMod,
   (ClockMod - s.now + LONG_PRESS_MS \div 2) % ClockMod}

\* C38: handleEncoder, handleEncoderSwitch and updateLED, which make all the
\* timeout comparisons, do to a state whose counter has wrapped since the
\* times it stored what they do to the state without the wrap, for every
\* input: the results differ by the shift of the clock alone.
C38_WrapInvisible ==
  \A k \in WrapShifts(m) :
    LET s == Begin(m)
        w == Shift(s, k)
    IN /\ pc = "enc" =>
            \A clk \in Levels, dt \in Levels :
              handleEncoder(w, clk, dt) = Shift(handleEncoder(s, clk, dt), k)
       /\ pc = "sw" =>
            \A sw \in Levels :
              handleEncoderSwitch(w, sw, files, TRUE)
                = Shift(handleEncoderSwitch(s, sw, files, TRUE), k)
       /\ pc = "led" =>
            \A b \in BreathLevels, r \in ErrorLevels :
              updateLED(w, b, r) = Shift(updateLED(s, b, r), k)

\* the counter of s has wrapped since the time start
WrappedSince(s, start) == s.now < start

\* C38: the knob has been down for LONG_PRESS_MS; with the wrap of the
\* counter inside the press, handleEncoderSwitch dispatches the LongPress
\* all the same.
C38_Witness ==
  /\ pc = "sw"
  /\ btn.sw = LOW
  /\ m.g_swPressed
  /\ ~m.g_swHandled
  /\ Elapsed(m.now, m.g_swPressStart) = LONG_PRESS_MS
  /\ \A k \in WrapShifts(m) :
       LET w == Shift(Begin(m), k)
       IN /\ WrappedSince(w, w.g_swPressStart)
          /\ Count(handleEncoderSwitch(w, LOW, files, TRUE).io, "LongPress") = 1

\* C38: a flash and a track colour have both run out; with the wrap of the
\* counter inside both, updateLED ends them all the same.
C38_WitnessOverlays ==
  /\ pc = "led"
  /\ m.g_showingVolFlash
  /\ m.g_showingTrackColor
  /\ Elapsed(m.now, m.g_volFlashStart) >= VOLUME_FLASH_MS
  /\ Elapsed(m.now, m.g_trackColorStart) >= TRACK_COLOR_MS
  /\ \A k \in WrapShifts(m) :
       LET w == Shift(Begin(m), k)
           r == updateLED(w, BREATH_MAX, ERR_MIN)
       IN /\ WrappedSince(w, w.g_volFlashStart)
          /\ WrappedSince(w, w.g_trackColorStart)
          /\ ~r.g_showingVolFlash
          /\ ~r.g_showingTrackColor

====
